---- MODULE Spec2Model ----
(***************************************************************************)
(* Verification model of the ZeroClaw tool-dispatch agent subsystem:       *)
(*   - the loop detector            (src/src/agent/loop_/detection.rs)     *)
(*   - the hybrid memory            (src/src/memory/hybrid.rs)             *)
(*   - the device registry and GPIO (src/src/hardware/device.rs, gpio.rs)  *)
(*   - the web_fetch URL guard      (src/src/tools/web_fetch.rs)           *)
(*   - the subprocess plugin tool   (src/src/hardware/subprocess.rs)       *)
(*   - the serial GPIO tools        (src/src/peripherals/serial.rs)        *)
(*   - the pptx_read tool           (src/src/tools/pptx_read.rs)           *)
(* Each component has its own specification over its own variables; the    *)
(* variables of the other components stay at their idle value.             *)
(***************************************************************************)
EXTENDS Integers, Sequences, FiniteSets, TLC

VARIABLES
    \* ---- loop detector (LoopDetector) ----
    config,                 \* LoopDetectionConfig
    history,                \* Vec<CallRecord>
    consecutive_failures,   \* HashMap<String, usize> (0 = no entry for the tool)
    warning_injected,       \* bool latch
    verdicts,               \* the verdicts check() has returned so far, in order
    last_outputs,           \* the output arguments of the two most recent record_calls
    warned_at,              \* number of records in history when check() returned InjectWarning, -1 before
    \* ---- hybrid memory (SqliteQdrantHybridMemory) ----
    sqlite,                 \* authoritative store: key -> row
    qdrant,                 \* semantic index: the keys it holds
    rpc,                    \* position of the recall() in flight
    rargs,                  \* arguments of that recall()
    cands,                  \* qdrant_candidates not yet visited
    seen_keys,              \* HashSet of candidate keys already visited
    merged,                 \* Vec of rows joined so far
    mresult,                \* value returned by the last memory operation
    store_call,             \* the store() between its two awaits, if any
    \* ---- device registry and GPIO tools ----
    devices,                \* DeviceRegistry.devices: alias -> RegisteredDevice
    alias_counters,         \* DeviceRegistry.alias_counters: prefix -> u32
    rw,                     \* the RwLock around the registry: writer and readers
    pc,                     \* position of each task
    task,                   \* locals of each task's call in flight
    io,                     \* transport calls in flight
    ret,                    \* value returned by the last call that returned
    \* ---- web_fetch ----
    web_cfg,                \* WebFetchTool: domain lists, resolver table, provider
    web_pc,                 \* position of the execute in flight
    web_checked,            \* the last URL validated and validate_target_url's answer
    web_wire,               \* the URL of the request in flight for the fetched page
    web_url,                \* the validated url of the execute in flight
    web_prev,               \* attempt.previous().len(): URLs requested in the chain
    web_ret,                \* value returned by the last execute
    \* ---- subprocess plugin tool ----
    sub_pc,                 \* position of the execute in flight
    sub_child,              \* the child process
    sub_stdin,              \* the stdin pipe: units still to write, units buffered
    sub_stdout,             \* the first line the plugin has written to stdout
    sub_stderr,             \* what the plugin has written to stderr
    sub_local,              \* locals of the execute in flight
    sub_ret,                \* value returned by the last execute
    \* ---- serial peripheral GPIO tools ----
    ser_pc,                 \* position of each tool's execute
    ser_port,               \* the transport: mutex holder, commands unanswered, lines unread
    ser_ret,                \* value returned by the last execute that returned
    \* ---- pptx_read ----
    pptx_ret,               \* value returned by the last execute
    pptx_ops,               \* file-system operations of that execute, in order
    \* ---- gateway intake ----
    gw_cfg,                 \* AppState: pairing, webhook secret, auto_save
    gw_req,                 \* each request: its inputs and its handler's position
    gw_mem,                 \* the rows the handlers have stored in state.mem
    gw_runs,                \* the agent loops started, each with its message
    gw_events,              \* what state.observer has received, in order, each with the request it is for
    \* ---- web_fetch API keys ----
    api_keys,               \* WebFetchTool.api_keys
    key_index,              \* WebFetchTool.key_index (AtomicUsize)
    key_task,               \* each caller of get_next_api_key: position and idx
    key_seen,               \* the counter values fetch_add has returned, in order
    \* ---- agent tool list ----
    agent_tools,            \* the agent's Vec<Box<dyn Tool>>: the names, in order
    hw_merge,               \* the last merge_hardware_tools: its input and result
    \* ---- discovery of serial devices ----
    disc_pc,                \* position of discover()
    disc_scan,              \* the scanned devices not yet visited
    disc_found,             \* the devices registered so far
    \* ---- web_fetch domain lists ----
    norm_in,                \* the raw entries given to normalize_allowed_domains
    norm_out,               \* the list it returned
    norm_val,               \* a URL, validate_target_url's result, and the result for that result
    \* ---- web_fetch response body ----
    cap_max,                \* max_response_size
    cap_chunks,             \* the chunks the stream has yielded to the loop, in order
    cap_buf,                \* the bytes buffer
    cap_stop,               \* the loop has ended, and what append_chunk_with_cap returned last
    \* ---- Android bridge controller ----
    br_status,              \* ZeroClawController.status
    br_task,                \* each thread: the method it is in and its position
    br_seen,                \* what the last get_status() reported
    br_hist                 \* which of start() and stop() returned last, and what overlapped it

loopVars == <<config, history, consecutive_failures, warning_injected, verdicts, last_outputs, warned_at>>
memVars == <<sqlite, qdrant, rpc, rargs, cands, seen_keys, merged, mresult, store_call>>

regVars == <<devices, alias_counters, rw, pc, task, io, ret>>

webVars == <<web_cfg, web_pc, web_checked, web_wire, web_url, web_prev, web_ret>>

subVars == <<sub_pc, sub_child, sub_stdin, sub_stdout, sub_stderr, sub_local, sub_ret>>

serVars == <<ser_pc, ser_port, ser_ret>>

pptxVars == <<pptx_ret, pptx_ops>>

gwVars == <<gw_cfg, gw_req, gw_mem, gw_runs, gw_events>>

keyVars == <<api_keys, key_index, key_task, key_seen>>

hwVars == <<agent_tools, hw_merge>>

discVars == <<disc_pc, disc_scan, disc_found>>

normVars == <<norm_in, norm_out, norm_val>>

capVars == <<cap_max, cap_chunks, cap_buf, cap_stop>>

brVars == <<br_status, br_task, br_seen, br_hist>>

vars ==
    <<loopVars, memVars, regVars, webVars, subVars, serVars, pptxVars, gwVars, keyVars, hwVars, discVars,
      normVars, capVars, brVars>>

\* The variables a component leaves alone
notLoop ==
    <<memVars, regVars, webVars, subVars, serVars, pptxVars, gwVars, keyVars, hwVars, discVars,
      normVars, capVars, brVars>>
notMem ==
    <<loopVars, regVars, webVars, subVars, serVars, pptxVars, gwVars, keyVars, hwVars, discVars,
      normVars, capVars, brVars>>
notReg ==
    <<loopVars, memVars, webVars, subVars, serVars, pptxVars, gwVars, keyVars, hwVars, discVars,
      normVars, capVars, brVars>>
notWeb ==
    <<loopVars, memVars, regVars, subVars, serVars, pptxVars, gwVars, keyVars, hwVars, discVars,
      normVars, capVars, brVars>>
notSub ==
    <<loopVars, memVars, regVars, webVars, serVars, pptxVars, gwVars, keyVars, hwVars, discVars,
      normVars, capVars, brVars>>
notSer ==
    <<loopVars, memVars, regVars, webVars, subVars, pptxVars, gwVars, keyVars, hwVars, discVars,
      normVars, capVars, brVars>>
notPptx ==
    <<loopVars, memVars, regVars, webVars, subVars, serVars, gwVars, keyVars, hwVars, discVars,
      normVars, capVars, brVars>>
notGw ==
    <<loopVars, memVars, regVars, webVars, subVars, serVars, pptxVars, keyVars, hwVars, discVars,
      normVars, capVars, brVars>>
notKey ==
    <<loopVars, memVars, regVars, webVars, subVars, serVars, pptxVars, gwVars, hwVars, discVars,
      normVars, capVars, brVars>>
notHw ==
    <<loopVars, memVars, regVars, webVars, subVars, serVars, pptxVars, gwVars, keyVars, discVars,
      normVars, capVars, brVars>>
notDisc ==
    <<loopVars, memVars, regVars, webVars, subVars, serVars, pptxVars, gwVars, keyVars, hwVars,
      normVars, capVars, brVars>>
notNorm ==
    <<loopVars, memVars, regVars, webVars, subVars, serVars, pptxVars, gwVars, keyVars, hwVars, discVars,
      capVars, brVars>>
notCap ==
    <<loopVars, memVars, regVars, webVars, subVars, serVars, pptxVars, gwVars, keyVars, hwVars, discVars,
      normVars, brVars>>
notBr ==
    <<loopVars, memVars, regVars, webVars, subVars, serVars, pptxVars, gwVars, keyVars, hwVars, discVars,
      normVars, capVars>>

(***************************************************************************)
(* Generic helpers                                                         *)
(***************************************************************************)
Max(a, b) == IF a >= b THEN a ELSE b
Min(a, b) == IF a <= b THEN a ELSE b

\* s contains the token t
Contains(s, t) == \E i \in 1..Len(s) : s[i] = t

\* s ends with the sequence suf
EndsWith(s, suf) ==
    /\ Len(suf) <= Len(s)
    /\ SubSeq(s, Len(s) - Len(suf) + 1, Len(s)) = suf

\* s starts with the sequence pre
StartsWith(s, pre) ==
    /\ Len(pre) <= Len(s)
    /\ SubSeq(s, 1, Len(pre)) = pre

(***************************************************************************)
(* Loop detector                                                           *)
(***************************************************************************)
\* Bounds of the loop-detector model
MaxCalls == 4
MaxChecks == 2

OUTPUT_HASH_PREFIX_BYTES == 4096

\* The (tool_name, args_sig) pairs the agent loop records: one tool with two
\* canonical argument strings and a second tool.
Calls == { <<"echo", "{x:1}">>, <<"echo", "{y:2}">>, <<"shell", "{x:1}">> }

ToolNames == { c[1] : c \in Calls }

\* A tool output is its byte length together with the content of its first
\* OUTPUT_HASH_PREFIX_BYTES bytes (head) and of the bytes after them (tail,
\* empty when the output is not longer than the prefix).
ShortOutput == [len |-> 5, head |-> "hello", tail |-> ""]
LongOutput == [len |-> 5000, head |-> "same", tail |-> "more"]
\* An output that differs from LongOutput only after the hashed prefix
LongOutput2 == [len |-> 5000, head |-> "same", tail |-> "else"]
NoOutput == [len |-> 0, head |-> "", tail |-> ""]

\* The completed invocations the agent loop reports: a success with the short
\* or the long output, and a failure whose long output differs from the
\* successful one after the hashed prefix only.
Results ==
    { [output |-> ShortOutput, success |-> TRUE],
      [output |-> LongOutput, success |-> TRUE],
      [output |-> LongOutput2, success |-> FALSE] }

\* The configurations the detector is built with: the default, a stricter
\* one, and the all-disabled one.
Configs ==
    { [no_progress_threshold |-> 3, ping_pong_cycles |-> 2, failure_streak_threshold |-> 3],
      [no_progress_threshold |-> 2, ping_pong_cycles |-> 1, failure_streak_threshold |-> 2],
      [no_progress_threshold |-> 0, ping_pong_cycles |-> 0, failure_streak_threshold |-> 0] }

DefaultConfig ==
    [no_progress_threshold |-> 3, ping_pong_cycles |-> 2, failure_streak_threshold |-> 3]

\* DefaultHasher over the first OUTPUT_HASH_PREFIX_BYTES bytes: the hash is a
\* function of the hashed bytes only (collisions of the 64-bit hash are not
\* modelled).
hash_output(output) ==
    IF output.len > OUTPUT_HASH_PREFIX_BYTES
    THEN <<output.head>>
    ELSE IF output.tail = "" THEN <<output.head>> ELSE <<output.head, output.tail>>

\* Length of the longest suffix of h whose records match `last` on
\* (tool_name, args_sig, result_hash): iter().rev().take_while(..).count()
RECURSIVE StreakFrom(_, _, _)
StreakFrom(h, i, last) ==
    IF i = 0 THEN 0
    ELSE IF /\ h[i].tool_name = last.tool_name
            /\ h[i].args_sig = last.args_sig
            /\ h[i].result_hash = last.result_hash
         THEN 1 + StreakFrom(h, i - 1, last)
         ELSE 0

NoReason == <<>>

\* check_no_progress_repeat with an off-by-one threshold comparison
\* (streak > threshold).
check_no_progress_repeat_gt(cfg, h) ==
    LET threshold == cfg.no_progress_threshold IN
    IF threshold = 0 \/ Len(h) = 0 THEN NoReason
    ELSE LET last == h[Len(h)]
             streak == StreakFrom(h, Len(h), last)
         IN IF streak > threshold
            THEN <<"Tool", last.tool_name, "called", ToString(streak),
                   "times with identical arguments and identical results",
                   "no progress", "detected">>
            ELSE NoReason

\* Strategy 1: no-progress repeat. Returns the reason text (a token sequence)
\* or NoReason.
check_no_progress_repeat(cfg, h) ==
    LET threshold == cfg.no_progress_threshold IN
    IF threshold = 0 \/ Len(h) = 0 THEN NoReason
    ELSE LET last == h[Len(h)]
             streak == StreakFrom(h, Len(h), last)
         IN IF streak >= threshold
            THEN <<"Tool", last.tool_name, "called", ToString(streak),
                   "times with identical arguments and identical results",
                   "no progress", "detected">>
            ELSE NoReason

\* check_ping_pong comparing the tail on (tool, args) only
check_ping_pong_no_hash(cfg, h) ==
    LET cycles == cfg.ping_pong_cycles
        len == Len(h)
    IN
    IF cycles = 0 \/ len < 4 THEN NoReason
    ELSE LET a == h[len - 1]
             b == h[len]
             min_entries == cycles * 2
         IN IF a.tool_name = b.tool_name /\ a.args_sig = b.args_sig THEN NoReason
            ELSE IF len < min_entries THEN NoReason
            ELSE LET tail == SubSeq(h, len - min_entries + 1, len)
                     is_ping_pong ==
                        \A c \in 1..cycles :
                            /\ tail[2 * c - 1].tool_name = a.tool_name
                            /\ tail[2 * c - 1].args_sig = a.args_sig
                            /\ tail[2 * c].tool_name = b.tool_name
                            /\ tail[2 * c].args_sig = b.args_sig
                 IN IF is_ping_pong
                    THEN <<"Ping-pong loop detected:", a.tool_name, "and", b.tool_name,
                           "alternating", ToString(cycles), "times with", "no progress">>
                    ELSE NoReason

\* Strategy 2: ping-pong.
check_ping_pong(cfg, h) ==
    LET cycles == cfg.ping_pong_cycles
        len == Len(h)
    IN
    IF cycles = 0 \/ len < 4 THEN NoReason
    ELSE LET a == h[len - 1]
             b == h[len]
             min_entries == cycles * 2
         IN IF a.tool_name = b.tool_name /\ a.args_sig = b.args_sig THEN NoReason
            ELSE IF len < min_entries THEN NoReason
            ELSE LET tail == SubSeq(h, len - min_entries + 1, len)
                     is_ping_pong ==
                        \A c \in 1..cycles :
                            /\ tail[2 * c - 1].tool_name = a.tool_name
                            /\ tail[2 * c - 1].args_sig = a.args_sig
                            /\ tail[2 * c - 1].result_hash = a.result_hash
                            /\ tail[2 * c].tool_name = b.tool_name
                            /\ tail[2 * c].args_sig = b.args_sig
                            /\ tail[2 * c].result_hash = b.result_hash
                 IN IF is_ping_pong
                    THEN <<"Ping-pong loop detected:", a.tool_name, "and", b.tool_name,
                           "alternating", ToString(cycles), "times with", "no progress">>
                    ELSE NoReason

\* check_failure_streak that needs the counter to exceed the threshold
check_failure_streak_gt(cfg, cf) ==
    LET threshold == cfg.failure_streak_threshold IN
    IF threshold = 0 THEN {}
    ELSE { <<"Tool", t, "failed", ToString(cf[t]), "consecutive times">> :
              t \in { u \in DOMAIN cf : cf[u] > threshold } }

\* Strategy 3: consecutive failure streak. The HashMap is iterated in an
\* unspecified order, so the result is the set of reasons the loop can return
\* (empty when no tool is over the threshold).
check_failure_streak(cfg, cf) ==
    LET threshold == cfg.failure_streak_threshold IN
    IF threshold = 0 THEN {}
    ELSE { <<"Tool", t, "failed", ToString(cf[t]), "consecutive times">> :
              t \in { u \in DOMAIN cf : cf[u] >= threshold } }

\* The reasons check() can compute: the first strategy that fires wins.
Reasons(cfg, h, cf) ==
    IF check_no_progress_repeat(cfg, h) # NoReason
    THEN {check_no_progress_repeat(cfg, h)}
    ELSE IF check_ping_pong(cfg, h) # NoReason
         THEN {check_ping_pong(cfg, h)}
         ELSE check_failure_streak(cfg, cf)

format_warning(reason) ==
    <<"IMPORTANT: A loop pattern has been detected in your tool usage.">>
    \o reason
    \o <<"You must change your approach:",
         "(1) Try a different tool or different arguments,",
         "(2) If polling a process, increase wait time or check if it's stuck,",
         "(3) If the task cannot be completed, explain why and stop.",
         "Do NOT repeat the same tool call with the same arguments.">>

Continue == [kind |-> "Continue", text |-> <<>>]
InjectWarning(text) == [kind |-> "InjectWarning", text |-> text]
HardStop(text) == [kind |-> "HardStop", text |-> text]

LoopDetector_new ==
    /\ config \in Configs
    /\ history = <<>>
    /\ consecutive_failures = [t \in ToolNames |-> 0]
    /\ warning_injected = FALSE
    /\ verdicts = <<>>
    /\ last_outputs = <<NoOutput, NoOutput>>
    /\ warned_at = -1

\* record_call that stores the same result_hash whatever the output is
record_call_const_hash(tool_name, args_sig, output, success) ==
    /\ Len(history) < MaxCalls
    /\ history' = Append(history,
                         [tool_name |-> tool_name, args_sig |-> args_sig,
                          result_hash |-> <<>>, success |-> success])
    /\ consecutive_failures' =
          IF success
          THEN [consecutive_failures EXCEPT ![tool_name] = 0]
          ELSE [consecutive_failures EXCEPT ![tool_name] = @ + 1]
    /\ last_outputs' = <<last_outputs[2], output>>
    /\ UNCHANGED <<config, warning_injected, verdicts, warned_at, notLoop>>

\* LoopDetector::record_call
record_call(tool_name, args_sig, output, success) ==
    /\ Len(history) < MaxCalls
    /\ history' = Append(history,
                         [tool_name |-> tool_name, args_sig |-> args_sig,
                          result_hash |-> hash_output(output), success |-> success])
    /\ consecutive_failures' =
          IF success
          THEN [consecutive_failures EXCEPT ![tool_name] = 0]
          ELSE [consecutive_failures EXCEPT ![tool_name] = @ + 1]
    /\ last_outputs' = <<last_outputs[2], output>>
    /\ UNCHANGED <<config, warning_injected, verdicts, warned_at, notLoop>>

RecordCall ==
    \E c \in Calls, r \in Results :
        record_call(c[1], c[2], r.output, r.success)

\* LoopDetector::check, no strategy fires
CheckContinue ==
    /\ Len(verdicts) < MaxChecks
    /\ Reasons(config, history, consecutive_failures) = {}
    /\ verdicts' = Append(verdicts, Continue)
    /\ UNCHANGED <<config, history, consecutive_failures, warning_injected, last_outputs, warned_at, notLoop>>

\* check() that returns the warning without setting the latch
CheckWarn_no_latch ==
    /\ Len(verdicts) < MaxChecks
    /\ ~warning_injected
    /\ \E msg \in Reasons(config, history, consecutive_failures) :
          verdicts' = Append(verdicts, InjectWarning(format_warning(msg)))
    /\ warned_at' = Len(history)
    /\ UNCHANGED <<config, history, consecutive_failures, warning_injected, last_outputs, notLoop>>

\* LoopDetector::check, a strategy fires and the latch is not set
CheckWarn ==
    /\ Len(verdicts) < MaxChecks
    /\ ~warning_injected
    /\ \E msg \in Reasons(config, history, consecutive_failures) :
          verdicts' = Append(verdicts, InjectWarning(format_warning(msg)))
    /\ warning_injected' = TRUE
    /\ warned_at' = Len(history)
    /\ UNCHANGED <<config, history, consecutive_failures, last_outputs, notLoop>>

\* check() that clears the latch when it returns HardStop
CheckHardStop_clear_latch ==
    /\ Len(verdicts) < MaxChecks
    /\ warning_injected
    /\ \E msg \in Reasons(config, history, consecutive_failures) :
          verdicts' = Append(verdicts, HardStop(msg))
    /\ warning_injected' = FALSE
    /\ UNCHANGED <<config, history, consecutive_failures, last_outputs, warned_at, notLoop>>

\* LoopDetector::check, a strategy fires and the latch is set
CheckHardStop ==
    /\ Len(verdicts) < MaxChecks
    /\ warning_injected
    /\ \E msg \in Reasons(config, history, consecutive_failures) :
          verdicts' = Append(verdicts, HardStop(msg))
    /\ UNCHANGED <<config, history, consecutive_failures, warning_injected, last_outputs, warned_at, notLoop>>

NextLoop ==
    \/ RecordCall
    \/ CheckContinue
    \/ CheckWarn
    \/ CheckHardStop

\* The detector before it is created (its value while another component runs).
IdleLoop ==
    /\ config = DefaultConfig
    /\ history = <<>>
    /\ consecutive_failures = [t \in ToolNames |-> 0]
    /\ warning_injected = FALSE
    /\ verdicts = <<>>
    /\ last_outputs = <<NoOutput, NoOutput>>
    /\ warned_at = -1

(***************************************************************************)
(* Hybrid memory                                                           *)
(***************************************************************************)
\* Bounds of the memory model
MaxCands == 2

\* The limits recall() is called with
Limits == 0..2

KeySeq == <<"a", "b">>
Keys == { KeySeq[i] : i \in 1..Len(KeySeq) }
Contents == {"rank", "beta"}
NoSession == "none"
Sessions == {NoSession, "s1"}
Scores == {"0.91"}
NoScore == "none"
Queries == {"  ", " rank "}

Absent == [present |-> FALSE, content |-> "", session_id |-> NoSession]
Row(content, session_id) == [present |-> TRUE, content |-> content, session_id |-> session_id]

\* MemoryEntry built from a stored row
Entry(key, row, score) ==
    [key |-> key, content |-> row.content, session_id |-> row.session_id, score |-> score]

\* str::trim on the query strings of the model
trim(q) == IF q = "  " THEN "" ELSE IF q = " rank " THEN "rank" ELSE q

\* Memory::get of the authoritative backend
sqlite_get(store, key) == store[key]

\* The keyword match of the authoritative backend: a query without a word
\* matches every row, a word matches the rows that hold it (a query with
\* blanks around the word is looked up as it was passed and matches none).
matches(query, content) == query \in {"", "  "} \/ content = query

\* Memory::recall of the authoritative backend: the stored rows of the
\* session (all rows when no session is given) that match the query, in key
\* order, at most limit.
RECURSIVE sqlite_scan(_, _, _, _, _)
sqlite_scan(store, i, query, limit, session) ==
    IF i > Len(KeySeq) \/ limit = 0 THEN <<>>
    ELSE LET k == KeySeq[i]
             hit == /\ store[k].present
                    /\ (session = NoSession \/ store[k].session_id = session)
                    /\ matches(query, store[k].content)
         IN IF hit
            THEN <<Entry(k, store[k], NoScore)>>
                    \o sqlite_scan(store, i + 1, query, limit - 1, session)
            ELSE sqlite_scan(store, i + 1, query, limit, session)

sqlite_recall(store, query, limit, session) == sqlite_scan(store, 1, query, limit, session)

\* Sequences of at most n elements of S
SeqsUpTo(S, n) == UNION { [1..m -> S] : m \in 0..n }

\* Candidate lists the semantic index can answer with: entries of keys it
\* holds, at most the requested number.
Candidates(index, n) ==
    SeqsUpTo([key : index, score : Scores], Min(n, MaxCands))

\* Skip the candidates at the head of cs whose key was already visited
\* (`if !seen_keys.insert(..) { continue; }`).
RECURSIVE DropSeen(_, _)
DropSeen(cs, seen) ==
    IF cs = <<>> THEN <<>>
    ELSE IF Head(cs).key \in seen THEN DropSeen(Tail(cs), seen) ELSE cs

Ok(entries) == [ok |-> TRUE, entries |-> entries]
Err == [ok |-> FALSE, entries |-> <<>>]

\* No store() is between its awaits
NoStore == [state |-> "idle", key |-> "none"]

IdleMem ==
    /\ sqlite = [k \in Keys |-> Absent]
    /\ qdrant = {}
    /\ rpc = "idle"
    /\ rargs = [query |-> "", limit |-> 0, session |-> "none"]
    /\ cands = <<>>
    /\ seen_keys = {}
    /\ merged = <<>>
    /\ mresult = Ok(<<>>)
    /\ store_call = NoStore


recallVars == <<rpc, rargs, cands, seen_keys, merged>>

\* SqliteQdrantHybridMemory::store as the recalls see it, both writes in one
\* step: the state between the two writes is the one a store leaves whose
\* semantic write failed
Store ==
    \E key \in Keys, content \in Contents, session \in Sessions,
       sqlite_ok \in BOOLEAN, qdrant_ok \in BOOLEAN :
        /\ IF sqlite_ok
           THEN /\ sqlite' = [sqlite EXCEPT ![key] = Row(content, session)]
                /\ qdrant' = IF qdrant_ok THEN qdrant \cup {key} ELSE qdrant
                /\ mresult' = Ok(<<>>)
           ELSE /\ UNCHANGED <<sqlite, qdrant>>
                /\ mresult' = Err
        /\ UNCHANGED <<recallVars, store_call, notMem>>

\* store that goes on to the semantic write when the authoritative one failed
StoreBegin_ignore_error ==
    /\ store_call = NoStore
    /\ \E key \in Keys, content \in Contents, session \in Sessions, sqlite_ok \in BOOLEAN :
          /\ sqlite' = IF sqlite_ok THEN [sqlite EXCEPT ![key] = Row(content, session)]
                       ELSE sqlite
          /\ store_call' = [state |-> "sync", key |-> key]
          /\ UNCHANGED mresult
    /\ UNCHANGED <<qdrant, recallVars, notMem>>

\* store up to its second await: self.sqlite.store(..).await?
StoreBegin ==
    /\ store_call = NoStore
    /\ \E key \in Keys, content \in Contents, session \in Sessions, sqlite_ok \in BOOLEAN :
          IF sqlite_ok
          THEN /\ sqlite' = [sqlite EXCEPT ![key] = Row(content, session)]
               /\ store_call' = [state |-> "sync", key |-> key]
               /\ UNCHANGED mresult
          ELSE /\ mresult' = Err
               /\ UNCHANGED <<sqlite, store_call>>
    /\ UNCHANGED <<qdrant, recallVars, notMem>>

\* store from self.qdrant.store(..).await to its return: the error of the
\* semantic write is logged and dropped
StoreSync ==
    /\ store_call.state = "sync"
    /\ \E qdrant_ok \in BOOLEAN :
          qdrant' = IF qdrant_ok THEN qdrant \cup {store_call.key} ELSE qdrant
    /\ mresult' = Ok(<<>>)
    /\ store_call' = NoStore
    /\ UNCHANGED <<sqlite, recallVars, notMem>>

\* SqliteQdrantHybridMemory::forget
Forget ==
    \E key \in Keys, sqlite_ok \in BOOLEAN, qdrant_ok \in BOOLEAN :
        /\ IF sqlite_ok
           THEN /\ sqlite' = [sqlite EXCEPT ![key] = Absent]
                /\ qdrant' = IF qdrant_ok THEN qdrant \ {key} ELSE qdrant
                /\ mresult' = Ok(<<>>)
           ELSE /\ UNCHANGED <<sqlite, qdrant>>
                /\ mresult' = Err
        /\ UNCHANGED <<recallVars, store_call, notMem>>

RecallArgs == [query : Queries, limit : Limits, session : Sessions]
NoArgs == [query |-> "", limit |-> 0, session |-> NoSession]

\* recall(): empty (trimmed) query, answered by the authoritative recall
RecallEmptyQuery ==
    \E a \in RecallArgs, sqlite_ok \in BOOLEAN :
        /\ rpc = "idle"
        /\ trim(a.query) = ""
        /\ mresult' = IF sqlite_ok
                      THEN Ok(sqlite_recall(sqlite, a.query, a.limit, a.session))
                      ELSE Err
        /\ UNCHANGED <<sqlite, qdrant, recallVars, store_call, notMem>>

\* recall(): the semantic recall fails or returns no candidate; the fallback
\* to the authoritative recall is the next await.
RecallSemanticMiss ==
    \E a \in RecallArgs :
        /\ rpc = "idle"
        /\ trim(a.query) # ""
        /\ rargs' = a
        /\ rpc' = "fallback"
        /\ UNCHANGED <<sqlite, qdrant, cands, seen_keys, merged, mresult, store_call, notMem>>

\* recall(): the semantic recall returns candidates
RecallSemanticHit ==
    \E a \in RecallArgs :
        /\ rpc = "idle"
        /\ trim(a.query) # ""
        /\ \E cs \in Candidates(qdrant, Max(a.limit, 1) * 3) :
              /\ cs # <<>>
              /\ cands' = cs
        /\ rargs' = a
        /\ rpc' = "loop"
        /\ seen_keys' = {}
        /\ UNCHANGED <<sqlite, qdrant, merged, mresult, store_call, notMem>>

\* Variant of Joined that keeps a candidate the authoritative store does not
\* hold.
Joined_keep_missing(c, got, session) ==
    IF got.present /\ session # NoSession /\ got.session_id # session THEN <<>>
    ELSE <<Entry(c.key, got, c.score)>>

\* The row recall() joins for candidate c when sqlite.get answered `got`
\* (Ok(Some(row)) or Ok(None)): nothing for a missing row or a row of another
\* session, else the row with the candidate's score.
Joined(c, got, session) ==
    IF ~got.present THEN <<>>
    ELSE IF session # NoSession /\ got.session_id # session THEN <<>>
    ELSE <<Entry(c.key, got, c.score)>>

\* recall(): one turn of the candidate loop, from the answer of sqlite.get for
\* the next unvisited candidate up to the next await or, when the loop ends
\* with joined rows, up to the return. seen_keys keeps the keys the returning
\* recall() visited until the next recall() builds a new set.
RecallStep ==
    /\ rpc = "loop"
    /\ \E get_ok \in BOOLEAN :
        LET c == Head(cands)
            add == IF get_ok THEN Joined(c, sqlite_get(sqlite, c.key), rargs.session) ELSE <<>>
            m == merged \o add
            seen == seen_keys \cup {c.key}
            full == add # <<>> /\ Len(m) >= rargs.limit
            rest == IF full THEN <<>> ELSE DropSeen(Tail(cands), seen)
        IN IF rest # <<>>
           THEN /\ merged' = m /\ seen_keys' = seen /\ cands' = rest
                /\ UNCHANGED <<rpc, rargs, mresult>>
           ELSE IF m = <<>>
                THEN /\ rpc' = "fallback"
                     /\ merged' = <<>> /\ seen_keys' = {} /\ cands' = <<>>
                     /\ UNCHANGED <<rargs, mresult>>
                ELSE /\ rpc' = "idle"
                     /\ mresult' = Ok(m)
                     /\ merged' = <<>> /\ seen_keys' = seen /\ cands' = <<>>
                     /\ rargs' = NoArgs
    /\ UNCHANGED <<sqlite, qdrant, store_call, notMem>>

\* recall() whose fallback passes the query as the caller gave it
RecallFallback_untrimmed ==
    /\ rpc = "fallback"
    /\ \E sqlite_ok \in BOOLEAN :
          mresult' = IF sqlite_ok
                     THEN Ok(sqlite_recall(sqlite, rargs.query, rargs.limit, rargs.session))
                     ELSE Err
    /\ rpc' = "idle"
    /\ rargs' = NoArgs
    /\ UNCHANGED <<sqlite, qdrant, cands, seen_keys, merged, store_call, notMem>>

\* recall(): the fallback authoritative recall answers
RecallFallback ==
    /\ rpc = "fallback"
    /\ \E sqlite_ok \in BOOLEAN :
          mresult' = IF sqlite_ok
                     THEN Ok(sqlite_recall(sqlite, trim(rargs.query), rargs.limit, rargs.session))
                     ELSE Err
    /\ rpc' = "idle"
    /\ rargs' = NoArgs
    /\ UNCHANGED <<sqlite, qdrant, cands, seen_keys, merged, store_call, notMem>>

NextMem ==
    \/ Store
    \/ Forget
    \/ RecallEmptyQuery
    \/ RecallSemanticMiss
    \/ RecallSemanticHit
    \/ RecallStep
    \/ RecallFallback

\* store calls, await by await, beside forget calls
NextStore ==
    \/ StoreBegin
    \/ StoreSync
    \/ Forget


(***************************************************************************)
(* Device registry and GPIO tools                                          *)
(***************************************************************************)
\* Bound of the registry model: the number of register() calls
MaxDevices == 1
\* The number of devices a registry used by one task alone holds at most
MaxAliases == 3

\* The tasks that share the Arc<RwLock<DeviceRegistry>>: one runs the GPIO
\* tools, the other the registry operations that need &mut DeviceRegistry
ToolTasks == {"tool"}
AdminTasks == {"admin"}
Procs == ToolTasks \cup AdminTasks

\* Option<String>
None == [some |-> FALSE, text |-> <<>>]
Some(t) == [some |-> TRUE, text |-> t]

\* ToolResult
ToolResult(success, output, error) ==
    [kind |-> "ToolResult", success |-> success, output |-> output, error |-> error]
\* anyhow::Result of a registry operation
RegOk(value) == [kind |-> "Ok", success |-> TRUE, output |-> value, error |-> None]
RegErr(msg) == [kind |-> "Err", success |-> FALSE, output |-> <<>>, error |-> Some(msg)]
NoRet == [kind |-> "none", success |-> FALSE, output |-> <<>>, error |-> None]

\* JSON argument values: absent, an unsigned integer, a string
JsonAbsent == [t |-> "absent", n |-> 0, s |-> <<>>]
JsonU64(n) == [t |-> "u64", n |-> n, s |-> <<>>]
JsonStr(s) == [t |-> "string", n |-> 0, s |-> s]

\* Board names, as the pieces the prefix table of alias_prefix tells apart
BoardNames == { <<"raspberry-pi", "-pico", "-w">>, <<"raspberry-pi">> }
\* Port paths: the one devices are registered under and the one the OS
\* assigns after a reboot
NoPath == "none"
BootPath == "/dev/ttyACM0"
RebootPath == "/dev/ttyACM1"

\* alias_prefix
alias_prefix(board_name) ==
    IF StartsWith(board_name, <<"raspberry-pi", "-pico">>) \/ StartsWith(board_name, <<"pico">>)
    THEN "pico"
    ELSE IF StartsWith(board_name, <<"arduino">>) THEN "arduino"
    ELSE IF StartsWith(board_name, <<"esp", "32">>) \/ StartsWith(board_name, <<"esp">>) THEN "esp"
    ELSE IF StartsWith(board_name, <<"nucleo">>) \/ StartsWith(board_name, <<"stm32">>) THEN "nucleo"
    ELSE IF StartsWith(board_name, <<"rpi">>) \/ board_name = <<"raspberry-pi">> THEN "rpi"
    ELSE "device"

\* format!("{}{}", prefix, counter)
Alias(prefix, counter) == <<prefix, ToString(counter)>>

\* The aliases callers name: those register() can hand out (unknown ones as
\* long as they are not handed out)
AliasArgs ==
    { Alias(alias_prefix(b), n) : b \in BoardNames, n \in 0..(MaxDevices - 1) }

\* HardwareSerialTransport::new(port_path, DEFAULT_BAUD)
NoTransport == <<"none">>
SerialTransport(port_path) == <<"serial", port_path>>
Transports == { SerialTransport(BootPath) }

\* The locals of a call in flight; `before` is the Device record a reconnect
\* found when it was called
NoTask ==
    [tool |-> "none", device |-> JsonAbsent, pin |-> 0, value |-> 0,
     alias |-> <<>>, transport |-> NoTransport,
     before |-> [alias |-> <<>>, board_name |-> <<>>, device_path |-> "none"]]

\* The arguments of the GPIO tool calls of the model
GpioTools == {"gpio_write", "gpio_read"}
GpioArgs ==
    [device : {JsonAbsent, JsonStr(<<"pico", "0">>)},
     pin : {JsonAbsent, JsonU64(25)},
     value : {JsonAbsent, JsonU64(1), JsonU64(2)}]

\* What transport.send answers: Ok(ok:true) with or without a state,
\* Ok(ok:false) with or without an error text, Err(transport error)
Responses ==
    { [r |-> "ok", state |-> None, rvalue |-> 1, error |-> None],
      [r |-> "ok", state |-> Some(<<"HIGH">>), rvalue |-> 0, error |-> None],
      [r |-> "not_ok", state |-> None, rvalue |-> 0, error |-> Some(<<"bad pin">>)],
      [r |-> "not_ok", state |-> None, rvalue |-> 0, error |-> None],
      [r |-> "err", state |-> None, rvalue |-> 0, error |-> Some(<<"timeout">>)] }

\* DeviceRegistry::new behind a fresh RwLock, every task idle
IdleReg ==
    /\ devices = <<>>
    /\ alias_counters = <<>>
    /\ rw = [writer |-> "none", readers |-> {}]
    /\ pc = [p \in Procs |-> "idle"]
    /\ task = [p \in Procs |-> NoTask]
    /\ io = {}
    /\ ret = NoRet

\* DeviceRegistry::context
context(devs, alias) ==
    IF alias \in DOMAIN devs /\ devs[alias].transport # NoTransport
    THEN Some(<<alias>>)
    ELSE None

\* The aliases whose context advertises GPIO
gpio_aliases(devs) ==
    { a \in DOMAIN devs : context(devs, a).some /\ devs[a].capabilities.gpio }

\* The orders in which a HashMap may list the aliases of S
Orders(S) == { o \in [1..Cardinality(S) -> S] : \A a \in S : \E i \in DOMAIN o : o[i] = a }

RECURSIVE Join(_)
Join(o) == IF o = <<>> THEN <<>>
           ELSE IF Len(o) = 1 THEN o[1]
           ELSE o[1] \o <<", ">> \o Join(Tail(o))

ResolveOk(alias) == [ok |-> TRUE, alias |-> alias, msg |-> <<>>]
ResolveErr(msg) == [ok |-> FALSE, alias |-> <<>>, msg |-> msg]

\* resolve_alias that accepts any device with a transport
resolve_alias_any(devs, device_alias) ==
    IF ~context(devs, device_alias).some
    THEN ResolveErr(<<"device '">> \o device_alias \o <<"' not found or has no transport attached">>)
    ELSE ResolveOk(device_alias)

\* The rest of resolve_gpio_device once the alias is chosen
resolve_alias(devs, device_alias) ==
    IF ~context(devs, device_alias).some
    THEN ResolveErr(<<"device '">> \o device_alias \o <<"' not found or has no transport attached">>)
    ELSE IF ~devs[device_alias].capabilities.gpio
    THEN ResolveErr(<<"device '">> \o device_alias \o <<"' does not support GPIO; specify a GPIO-capable device">>)
    ELSE ResolveOk(device_alias)

\* DeviceRegistry::resolve_gpio_device: the results it may return (the listing
\* order of several candidates is the HashMap's)
resolve_gpio_device(devs, device) ==
    IF device.t = "string"
    THEN { resolve_alias(devs, device.s) }
    ELSE LET cand == gpio_aliases(devs)
         IN IF Cardinality(cand) = 1
            THEN { resolve_alias(devs, a) : a \in cand }
            ELSE IF cand = {}
            THEN { ResolveErr(<<"no GPIO-capable device found; specify \"device\" parameter">>) }
            ELSE { ResolveErr(<<"multiple devices available (">> \o Join(o)
                              \o <<"); specify \"device\" parameter">>) : o \in Orders(cand) }

\* GpioWriteTool::execute / GpioReadTool::execute up to the first await: the
\* parameter checks, then the wait for the registry read lock.
GpioBegin(p) ==
    /\ pc[p] = "idle"
    /\ \E tool \in GpioTools, args \in GpioArgs :
          IF args.pin.t # "u64"
          THEN /\ ret' = (ToolResult(FALSE, <<>>,
                               Some(<<"missing required parameter:", "pin">>)))
               /\ UNCHANGED <<pc, task>>
          ELSE IF tool = "gpio_write" /\ args.value.t # "u64"
          THEN /\ ret' = (ToolResult(FALSE, <<>>,
                               Some(<<"missing required parameter:", "value">>)))
               /\ UNCHANGED <<pc, task>>
          ELSE IF tool = "gpio_write" /\ args.value.n > 1
          THEN /\ ret' = (ToolResult(FALSE, <<>>,
                               Some(<<"value must be 0 or 1">>)))
               /\ UNCHANGED <<pc, task>>
          ELSE /\ pc' = [pc EXCEPT ![p] = "read_wait"]
               /\ task' = [task EXCEPT ![p] =
                     [NoTask EXCEPT !.tool = tool, !.device = args.device, !.pin = args.pin.n,
                                    !.value = IF tool = "gpio_write" THEN args.value.n ELSE 0]]
               /\ UNCHANGED ret
    /\ UNCHANGED <<devices, alias_counters, rw, io, notReg>>

\* self.registry.read().await completes: the read guard is held
GpioLockRead(p) ==
    /\ pc[p] = "read_wait"
    /\ rw.writer = "none"
    /\ rw' = [rw EXCEPT !.readers = @ \cup {p}]
    /\ pc' = [pc EXCEPT ![p] = "read_locked"]
    /\ UNCHANGED <<devices, alias_counters, task, io, ret, notReg>>

\* Under the read guard: resolve_gpio_device, then the guard is dropped at the
\* end of the block (on the error return as well).
GpioResolve(p) ==
    /\ pc[p] = "read_locked"
    /\ \E res \in resolve_gpio_device(devices, task[p].device) :
          IF res.ok
          THEN /\ task' = [task EXCEPT ![p].alias = res.alias,
                                       ![p].transport = devices[res.alias].transport]
               /\ pc' = [pc EXCEPT ![p] = "resolved"]
               /\ UNCHANGED ret
          ELSE /\ ret' = ToolResult(FALSE, <<>>, Some(res.msg))
               /\ task' = [task EXCEPT ![p] = NoTask]
               /\ pc' = [pc EXCEPT ![p] = "idle"]
    /\ rw' = [rw EXCEPT !.readers = @ \ {p}]
    /\ UNCHANGED <<devices, alias_counters, io, notReg>>

\* ZcCommand::new(...) and the start of ctx.transport.send(&cmd)
GpioSend(p) ==
    /\ pc[p] = "resolved"
    /\ io' = io \cup { [proc |-> p, call |-> "send", transport |-> task[p].transport,
                        cmd |-> task[p].tool, pin |-> task[p].pin, value |-> task[p].value] }
    /\ pc' = [pc EXCEPT ![p] = "sending"]
    /\ UNCHANGED <<devices, alias_counters, rw, task, ret, notReg>>

\* A ToolResult that reports every answer of the transport as a success
gpio_result_always_ok(t, resp) ==
    ToolResult(TRUE,
        <<"GPIO", ToString(t.pin), IF t.tool = "gpio_write" THEN "set" ELSE "is">>
           \o (IF resp.state.some THEN resp.state.text
               ELSE IF t.value = 1 THEN <<"HIGH">> ELSE <<"LOW">>)
           \o <<"on">> \o t.alias,
        None)

\* The ToolResult built from the answer of transport.send
gpio_result(t, resp) ==
    IF resp.r = "ok"
    THEN IF t.tool = "gpio_write"
         THEN ToolResult(TRUE,
                 <<"GPIO", ToString(t.pin), "set">>
                    \o (IF resp.state.some THEN resp.state.text
                        ELSE IF t.value = 1 THEN <<"HIGH">> ELSE <<"LOW">>)
                    \o <<"on">> \o t.alias,
                 None)
         ELSE ToolResult(TRUE,
                 <<"GPIO", ToString(t.pin), "is">>
                    \o (IF resp.state.some THEN resp.state.text
                        ELSE IF resp.rvalue = 1 THEN <<"HIGH">> ELSE <<"LOW">>)
                    \o <<"(", ToString(resp.rvalue), ")", "on">> \o t.alias,
                 None)
    ELSE IF resp.r = "not_ok"
    THEN ToolResult(FALSE, <<>>,
             IF resp.error.some THEN resp.error ELSE Some(<<"device returned ok:false">>))
    ELSE ToolResult(FALSE, <<>>, Some(<<"transport error:">> \o resp.error.text))

\* transport.send answers and execute returns
GpioSendDone(p) ==
    /\ pc[p] = "sending"
    /\ \E resp \in Responses :
          ret' = gpio_result(task[p], resp)
    /\ io' = { c \in io : c.proc # p }
    /\ task' = [task EXCEPT ![p] = NoTask]
    /\ pc' = [pc EXCEPT ![p] = "idle"]
    /\ UNCHANGED <<devices, alias_counters, rw, notReg>>

\* registry.write().await completes: the task holds the registry exclusively
\* (the only way to a &mut DeviceRegistry behind the Arc<RwLock<..>>)
RegLockWrite(p) ==
    /\ pc[p] = "idle"
    /\ rw.writer = "none"
    /\ rw.readers = {}
    /\ rw' = [rw EXCEPT !.writer = p]
    /\ pc' = [pc EXCEPT ![p] = "write_locked"]
    /\ UNCHANGED <<devices, alias_counters, task, io, ret, notReg>>

Device(alias, board_name, device_path) ==
    [alias |-> alias, board_name |-> board_name, device_path |-> device_path]

\* register that hands out the counter without advancing it
register_keep_counter(p, board_name, device_path) ==
    /\ pc[p] = "write_locked"
    /\ LET prefix == alias_prefix(board_name)
           counter == IF prefix \in DOMAIN alias_counters THEN alias_counters[prefix] ELSE 0
           alias == Alias(prefix, counter)
       IN /\ alias_counters' =
                 [k \in DOMAIN alias_counters \cup {prefix} |->
                     IF k = prefix THEN counter ELSE alias_counters[k]]
          /\ devices' =
                 [a \in DOMAIN devices \cup {alias} |->
                     IF a = alias
                     THEN [device |-> Device(alias, board_name, device_path),
                           transport |-> NoTransport,
                           capabilities |-> [gpio |-> FALSE]]
                     ELSE devices[a]]
          /\ ret' = RegOk(alias)
    /\ rw' = [rw EXCEPT !.writer = "none"]
    /\ pc' = [pc EXCEPT ![p] = "idle"]
    /\ UNCHANGED <<task, io, notReg>>

\* DeviceRegistry::register, then the write guard is dropped
register(p, board_name, device_path) ==
    /\ pc[p] = "write_locked"
    /\ LET prefix == alias_prefix(board_name)
           counter == IF prefix \in DOMAIN alias_counters THEN alias_counters[prefix] ELSE 0
           alias == Alias(prefix, counter)
       IN /\ alias_counters' =
                 [k \in DOMAIN alias_counters \cup {prefix} |->
                     IF k = prefix THEN counter + 1 ELSE alias_counters[k]]
          /\ devices' =
                 [a \in DOMAIN devices \cup {alias} |->
                     IF a = alias
                     THEN [device |-> Device(alias, board_name, device_path),
                           transport |-> NoTransport,
                           capabilities |-> [gpio |-> FALSE]]
                     ELSE devices[a]]
          /\ ret' = RegOk(alias)
    /\ rw' = [rw EXCEPT !.writer = "none"]
    /\ pc' = [pc EXCEPT ![p] = "idle"]
    /\ UNCHANGED <<task, io, notReg>>

Register ==
    /\ Cardinality(DOMAIN devices) < MaxDevices
    /\ \E p \in AdminTasks, b \in BoardNames, d \in {BootPath, NoPath} : register(p, b, d)

\* register called by the one task that owns the registry (boot, discovery)
RegisterDiscovered ==
    /\ Cardinality(DOMAIN devices) < MaxAliases
    /\ \E p \in AdminTasks, b \in BoardNames, d \in {BootPath, NoPath} : register(p, b, d)

\* DeviceRegistry::attach_transport, then the write guard is dropped
attach_transport(p, alias, transport, gpio) ==
    /\ pc[p] = "write_locked"
    /\ IF alias \in DOMAIN devices
       THEN /\ devices' = [devices EXCEPT ![alias].transport = transport,
                                          ![alias].capabilities.gpio = gpio]
            /\ ret' = RegOk(<<>>)
       ELSE /\ ret' = RegErr(<<"unknown device alias:">> \o alias)
            /\ UNCHANGED devices
    /\ rw' = [rw EXCEPT !.writer = "none"]
    /\ pc' = [pc EXCEPT ![p] = "idle"]
    /\ UNCHANGED <<alias_counters, task, io, notReg>>

AttachTransport ==
    \E p \in AdminTasks, a \in AliasArgs, t \in Transports, g \in BOOLEAN :
        attach_transport(p, a, t, g)

\* DeviceRegistry::reconnect up to its await: the alias lookup, the port path
\* (the caller's override is written into the Device record), the stale
\* transport dropped, then ping_handshake() of the fresh transport starts.
\* The errors return at once and the write guard is dropped.
ReconnectBegin(p) ==
    /\ pc[p] = "write_locked"
    /\ \E alias \in AliasArgs, new_port \in {RebootPath, NoPath} :
          IF alias \notin DOMAIN devices
          THEN /\ ret' = RegErr(<<"unknown device alias:">> \o alias)
               /\ rw' = [rw EXCEPT !.writer = "none"]
               /\ pc' = [pc EXCEPT ![p] = "idle"]
               /\ UNCHANGED <<devices, task, io>>
          ELSE IF new_port = NoPath /\ devices[alias].device.device_path = NoPath
          THEN /\ ret' = RegErr(<<"device">> \o alias \o <<"has no port path">>)
               /\ rw' = [rw EXCEPT !.writer = "none"]
               /\ pc' = [pc EXCEPT ![p] = "idle"]
               /\ UNCHANGED <<devices, task, io>>
          ELSE LET port_path == IF new_port # NoPath THEN new_port
                                ELSE devices[alias].device.device_path
               IN /\ devices' = [devices EXCEPT ![alias].device.device_path = port_path,
                                                ![alias].transport = NoTransport]
                  /\ task' = [task EXCEPT ![p] =
                        [NoTask EXCEPT !.tool = "reconnect", !.alias = alias,
                                       !.transport = SerialTransport(port_path),
                                       !.before = devices[alias].device]]
                  /\ io' = io \cup { [proc |-> p, call |-> "ping_handshake",
                                      transport |-> SerialTransport(port_path),
                                      cmd |-> "ping", pin |-> 0, value |-> 0] }
                  /\ pc' = [pc EXCEPT ![p] = "pinging"]
                  /\ UNCHANGED <<ret, rw>>
    /\ UNCHANGED <<alias_counters, notReg>>

\* reconnect that attaches the fresh transport whatever the handshake says
ReconnectPingDone_attach_always(p) ==
    /\ pc[p] = "pinging"
    /\ \E alive \in BOOLEAN :
          /\ devices' = [devices EXCEPT ![task[p].alias].transport = task[p].transport,
                                        ![task[p].alias].capabilities.gpio = TRUE]
          /\ ret' = IF alive THEN RegOk(<<>>)
                    ELSE RegErr(<<"ping handshake failed after reconnect on", task[p].transport[2]>>)
    /\ io' = { c \in io : c.proc # p }
    /\ rw' = [rw EXCEPT !.writer = "none"]
    /\ task' = [task EXCEPT ![p] = NoTask]
    /\ pc' = [pc EXCEPT ![p] = "idle"]
    /\ UNCHANGED <<alias_counters, notReg>>

\* ping_handshake() answers: on success the fresh transport is attached and
\* gpio set, otherwise reconnect bails; the write guard is dropped when
\* reconnect has returned.
ReconnectPingDone(p) ==
    /\ pc[p] = "pinging"
    /\ \E alive \in BOOLEAN :
          IF alive
          THEN /\ devices' = [devices EXCEPT ![task[p].alias].transport = task[p].transport,
                                             ![task[p].alias].capabilities.gpio = TRUE]
               /\ ret' = RegOk(<<>>)
          ELSE /\ ret' = RegErr(<<"ping handshake failed after reconnect on", task[p].transport[2]>>)
               /\ UNCHANGED devices
    /\ io' = { c \in io : c.proc # p }
    /\ rw' = [rw EXCEPT !.writer = "none"]
    /\ task' = [task EXCEPT ![p] = NoTask]
    /\ pc' = [pc EXCEPT ![p] = "idle"]
    /\ UNCHANGED <<alias_counters, notReg>>

NextReg ==
    \/ \E p \in ToolTasks : GpioBegin(p)
    \/ \E p \in ToolTasks : GpioLockRead(p)
    \/ \E p \in ToolTasks : GpioResolve(p)
    \/ \E p \in ToolTasks : GpioSend(p)
    \/ \E p \in ToolTasks : GpioSendDone(p)
    \/ \E p \in AdminTasks : RegLockWrite(p)
    \/ Register
    \/ AttachTransport
    \/ \E p \in AdminTasks : ReconnectBegin(p)
    \/ \E p \in AdminTasks : ReconnectPingDone(p)

\* The registries a tool call can find: for each prefix the aliases handed out
\* so far, each entry with or without a transport and with or without gpio
\* (attach_transport sets both, a failed reconnect leaves gpio without a
\* transport)
AliasSets ==
    { S \in SUBSET { Alias(pre, n) : pre \in {"pico", "rpi"}, n \in 0..(MaxAliases - 1) } :
        /\ Cardinality(S) <= MaxAliases
        /\ \A a \in S : a[2] # "0" =>
               \E b \in S : b[1] = a[1] /\ \E n \in 0..(MaxAliases - 2) :
                                 b[2] = ToString(n) /\ a[2] = ToString(n + 1) }

BoardOf(pre) == IF pre = "pico" THEN <<"raspberry-pi", "-pico", "-w">> ELSE <<"raspberry-pi">>

Registries ==
    UNION { [ S -> [transport : {NoTransport} \cup Transports, gpio : BOOLEAN] ] : S \in AliasSets }

\* A registry populated before the tools run, the lock free, every task idle
PopulatedReg ==
    /\ \E R \in Registries :
          /\ devices = [a \in DOMAIN R |->
                            [device |-> Device(a, BoardOf(a[1]), BootPath),
                             transport |-> R[a].transport,
                             capabilities |-> [gpio |-> R[a].gpio]]]
          /\ alias_counters =
                [pre \in { a[1] : a \in DOMAIN R } |->
                    Cardinality({ a \in DOMAIN R : a[1] = pre })]
    /\ rw = [writer |-> "none", readers |-> {}]
    /\ pc = [p \in Procs |-> "idle"]
    /\ task = [p \in Procs |-> NoTask]
    /\ io = {}
    /\ ret = NoRet

\* The GPIO tools over a registry that no task changes any more
NextGpio ==
    \/ \E p \in ToolTasks : GpioBegin(p)
    \/ \E p \in ToolTasks : GpioLockRead(p)
    \/ \E p \in ToolTasks : GpioResolve(p)
    \/ \E p \in ToolTasks : GpioSend(p)
    \/ \E p \in ToolTasks : GpioSendDone(p)

\* The registry in the hands of one task: discovery, attach, reconnect
NextAlias ==
    \/ \E p \in AdminTasks : RegLockWrite(p)
    \/ RegisterDiscovered
    \/ AttachTransport
    \/ \E p \in AdminTasks : ReconnectBegin(p)
    \/ \E p \in AdminTasks : ReconnectPingDone(p)

(***************************************************************************)
(* web_fetch: URL validation and the redirect chain                        *)
(***************************************************************************)
\* reqwest hands the redirect policy the URLs already requested in the chain;
\* the policy refuses once there are this many.
MAX_REDIRECTS == 10

\* IP addresses: the octets (v4) or segments (v6) the code inspects, and
\* whether the address is globally routable (what the address is, not what
\* the code computes).
V4(a, b, c, d, global) == [v |-> 4, a |-> <<a, b, c, d>>, global |-> global]
V6(segs, global) == [v |-> 6, a |-> segs, global |-> global]
PublicIp == V4(93, 184, 216, 34, TRUE)
LoopbackIp == V4(127, 0, 0, 1, FALSE)
PrivateIp == V4(10, 0, 0, 5, FALSE)
CgnatIp == V4(100, 64, 0, 1, FALSE)
PublicIp6 == V6(<<9734, 10240, 0, 0, 0, 0, 0, 1>>, TRUE)
UniqueLocalIp6 == V6(<<64768, 0, 0, 0, 0, 0, 0, 1>>, FALSE)
MappedLoopbackIp6 == V6(<<0, 0, 0, 0, 0, 65535, 32512, 1>>, FALSE)

\* Hosts: the labels as written in the URL, the lowercase name, and what the
\* host is: a public name, a local name, a private or public IPv4 literal
\* (also in the short form 127.1 that only the resolver understands), an
\* IPv6 literal.
Host(labels, name, class) == [labels |-> labels, name |-> name, class |-> class]
ExampleCom == Host(<<"example", "com">>, <<"example", "com">>, "public")
DocsExampleCom == Host(<<"docs", "example", "com">>, <<"docs", "example", "com">>, "public")
NotExampleCom == Host(<<"notexample", "com">>, <<"notexample", "com">>, "public")
EvilExampleCom == Host(<<"evil", "example", "com">>, <<"evil", "example", "com">>, "public")
UpperExampleCom == Host(<<"EXAMPLE", "com">>, <<"example", "com">>, "public")
RebindExampleCom == Host(<<"rebind", "example", "com">>, <<"rebind", "example", "com">>, "public")
Localhost == Host(<<"localhost">>, <<"localhost">>, "local")
AppLocalhost == Host(<<"app", "localhost">>, <<"app", "localhost">>, "local")
PrinterLocal == Host(<<"printer", "local">>, <<"printer", "local">>, "local")
LoopbackLiteral == Host(<<"127", "0", "0", "1">>, <<"127", "0", "0", "1">>, "private_ip")
ShortLoopback == Host(<<"127", "1">>, <<"127", "1">>, "private_ip")
PublicLiteral == Host(<<"93", "184", "216", "34">>, <<"93", "184", "216", "34">>, "public_ip")
Ipv6Literal == Host(<<"[::1]">>, <<"[::1]">>, "ipv6_literal")

Hosts ==
    { ExampleCom, DocsExampleCom, NotExampleCom, EvilExampleCom, UpperExampleCom,
      RebindExampleCom, Localhost, AppLocalhost, PrinterLocal, LoopbackLiteral,
      ShortLoopback, PublicLiteral, Ipv6Literal }
HostNames == { h.name : h \in Hosts }

\* What the resolver answers for each name: two tables that differ on the
\* names whose records an attacker controls.
DnsBase ==
    [n \in HostNames |->
        IF n = <<"example", "com">> THEN {PublicIp}
        ELSE IF n = <<"docs", "example", "com">> THEN {PublicIp, PublicIp6}
        ELSE IF n = <<"notexample", "com">> THEN {PublicIp}
        ELSE IF n = <<"evil", "example", "com">> THEN {PublicIp}
        ELSE IF n = <<"rebind", "example", "com">> THEN {PublicIp, LoopbackIp}
        ELSE IF n = <<"localhost">> THEN {LoopbackIp}
        ELSE IF n = <<"app", "localhost">> THEN {LoopbackIp}
        ELSE IF n = <<"printer", "local">> THEN {PrivateIp}
        ELSE IF n = <<"127", "0", "0", "1">> THEN {LoopbackIp}
        ELSE IF n = <<"127", "1">> THEN {LoopbackIp}
        ELSE IF n = <<"93", "184", "216", "34">> THEN {PublicIp}
        ELSE {}]
DnsTables ==
    { DnsBase,
      [DnsBase EXCEPT ![<<"rebind", "example", "com">>] = {MappedLoopbackIp6},
                      ![<<"notexample", "com">>] = {},
                      ![<<"evil", "example", "com">>] = {CgnatIp},
                      ![<<"docs", "example", "com">>] = {UniqueLocalIp6}] }

\* URLs, by their parts: surrounding or inner whitespace, scheme, userinfo,
\* host, a dot after the host, a port, a path. The URLs of the model depart
\* from the plain https://host[/path] form in at most one part. EmptyUrl is
\* the empty string.
Departures(u) ==
    (IF u.pad # "none" THEN 1 ELSE 0) + (IF u.scheme # "https" THEN 1 ELSE 0)
    + (IF u.userinfo THEN 1 ELSE 0) + (IF u.dot THEN 1 ELSE 0) + (IF u.port THEN 1 ELSE 0)
UrlRecs ==
    { u \in [pad : {"none", "outer", "inner"}, scheme : {"http", "https", "ftp"},
              userinfo : BOOLEAN, host : Hosts, dot : BOOLEAN, port : BOOLEAN, path : BOOLEAN] :
        Departures(u) <= 1 }
EmptyUrl ==
    [pad |-> "empty", scheme |-> "http", userinfo |-> FALSE, host |-> ExampleCom,
     dot |-> FALSE, port |-> FALSE, path |-> FALSE]
NoUrl ==
    [pad |-> "absent", scheme |-> "http", userinfo |-> FALSE, host |-> ExampleCom,
     dot |-> FALSE, port |-> FALSE, path |-> FALSE]

\* The pieces of a label that matter to suffix matching on the string
LabelTokens(l) == IF l = "notexample" THEN <<"not", "example">> ELSE <<l>>

\* A dotted name as a string
RECURSIVE Dotted(_)
Dotted(labels) ==
    IF labels = <<>> THEN <<>>
    ELSE IF Len(labels) = 1 THEN LabelTokens(labels[1])
    ELSE LabelTokens(labels[1]) \o <<".">> \o Dotted(Tail(labels))

\* The URL string of a URL record
UrlString(u) ==
    IF u.pad = "empty" THEN <<>>
    ELSE (IF u.pad = "outer" THEN <<" ">> ELSE <<>>)
         \o <<u.scheme \o "://">>
         \o (IF u.userinfo THEN <<"user", "@">> ELSE <<>>)
         \o (IF u.host.class = "ipv6_literal" THEN <<"[", "::1", "]">> ELSE Dotted(u.host.labels))
         \o (IF u.dot THEN <<".">> ELSE <<>>)
         \o (IF u.port THEN <<":", "8080">> ELSE <<>>)
         \o (IF u.path THEN <<"/", "admin">> ELSE <<>>)
         \o (IF u.pad = "inner" THEN <<"?", "q=a", " ", "b">> ELSE <<>>)
         \o (IF u.pad = "outer" THEN <<" ">> ELSE <<>>)

\* str::trim
RECURSIVE trim_start(_)
trim_start(s) == IF s # <<>> /\ Head(s) = " " THEN trim_start(Tail(s)) ELSE s
RECURSIVE trim_end(_)
trim_end(s) == IF s # <<>> /\ s[Len(s)] = " " THEN trim_end(SubSeq(s, 1, Len(s) - 1)) ELSE s
str_trim(s) == trim_end(trim_start(s))

\* str::trim_end_matches('.')
RECURSIVE trim_end_dots(_)
trim_end_dots(s) ==
    IF s # <<>> /\ s[Len(s)] = "." THEN trim_end_dots(SubSeq(s, 1, Len(s) - 1)) ELSE s

\* str::to_lowercase
to_lowercase(s) == [i \in DOMAIN s |-> IF s[i] = "EXAMPLE" THEN "example" ELSE s[i]]

\* The part of s before the first piece that is in stops (split(..).next())
RECURSIVE Before(_, _)
Before(s, stops) ==
    IF s = <<>> \/ Head(s) \in stops THEN <<>>
    ELSE <<Head(s)>> \o Before(Tail(s), stops)

VOk(value) == [ok |-> TRUE, value |-> value, err |-> <<>>]
VErr(err) == [ok |-> FALSE, value |-> <<>>, err |-> err]

\* extract_host
extract_host(url) ==
    IF url = <<>> \/ Head(url) \notin {"http://", "https://"}
    THEN VErr(<<"Only http:// and https:// URLs are allowed">>)
    ELSE LET authority == Before(Tail(url), {"/", "?", "#"})
             host == to_lowercase(trim_end_dots(str_trim(Before(authority, {":"}))))
         IN IF authority = <<>> THEN VErr(<<"URL must include a host">>)
            ELSE IF Contains(authority, "@") THEN VErr(<<"URL userinfo is not allowed">>)
            ELSE IF Head(authority) = "[" THEN VErr(<<"IPv6 hosts are not supported in web_fetch">>)
            ELSE IF host = <<>> THEN VErr(<<"URL must include a valid host">>)
            ELSE VOk(host)

\* Variant of host_matches_allowlist that accepts any host string ending in
\* an entry (no check of the label boundary).
host_matches_allowlist_suffix(host, domains) ==
    \/ \E i \in DOMAIN domains : domains[i] = <<"*">>
    \/ \E i \in DOMAIN domains : EndsWith(host, domains[i])

\* host_matches_allowlist
host_matches_allowlist(host, domains) ==
    \/ \E i \in DOMAIN domains : domains[i] = <<"*">>
    \/ \E i \in DOMAIN domains :
          \/ host = domains[i]
          \/ /\ EndsWith(host, domains[i])
             /\ LET prefix == SubSeq(host, 1, Len(host) - Len(domains[i]))
                IN prefix # <<>> /\ prefix[Len(prefix)] = "."

\* The decimal octets str::parse::<Ipv4Addr> reads
OctetValue(t) ==
    IF t = "0" THEN 0 ELSE IF t = "1" THEN 1 ELSE IF t = "5" THEN 5 ELSE IF t = "10" THEN 10
    ELSE IF t = "34" THEN 34 ELSE IF t = "93" THEN 93 ELSE IF t = "127" THEN 127
    ELSE IF t = "184" THEN 184 ELSE IF t = "216" THEN 216 ELSE -1

\* bare.parse::<IpAddr>() succeeds (four octets; no IPv6 text reaches it)
IsIpv4Text(host) ==
    /\ Len(host) = 7
    /\ \A i \in {2, 4, 6} : host[i] = "."
    /\ \A i \in {1, 3, 5, 7} : OctetValue(host[i]) >= 0

\* is_non_global_v4
is_non_global_v4(o) ==
    LET a == o[1]  b == o[2]  c == o[3]  d == o[4]
    IN \/ a = 127
       \/ a = 10 \/ (a = 172 /\ b >= 16 /\ b <= 31) \/ (a = 192 /\ b = 168)
       \/ (a = 169 /\ b = 254)
       \/ (a = 0 /\ b = 0 /\ c = 0 /\ d = 0)
       \/ (a = 255 /\ b = 255 /\ c = 255 /\ d = 255)
       \/ (a >= 224 /\ a <= 239)
       \/ (a = 100 /\ b >= 64 /\ b <= 127)
       \/ a >= 240
       \/ (a = 192 /\ b = 0 /\ (c = 0 \/ c = 2))
       \/ (a = 198 /\ b = 51)
       \/ (a = 203 /\ b = 0)
       \/ (a = 198 /\ b >= 18 /\ b <= 19)

\* is_non_global_v6
is_non_global_v6(s) ==
    \/ s = <<0, 0, 0, 0, 0, 0, 0, 1>>
    \/ s = <<0, 0, 0, 0, 0, 0, 0, 0>>
    \/ s[1] \div 256 = 255
    \/ (s[1] \div 512) * 512 = 64512
    \/ (s[1] \div 64) * 64 = 65152
    \/ (s[1] = 8193 /\ s[2] = 3512)
    \/ /\ \A i \in 1..5 : s[i] = 0
       /\ s[6] = 65535
       /\ is_non_global_v4(<<s[7] \div 256, s[7] % 256, s[8] \div 256, s[8] % 256>>)

\* is_private_or_local_host
is_private_or_local_host(host) ==
    LET has_local_tld ==
            /\ host[Len(host)] = "local"
            /\ (Len(host) = 1 \/ host[Len(host) - 1] = ".")
    IN \/ host = <<"localhost">>
       \/ EndsWith(host, <<".", "localhost">>)
       \/ has_local_tld
       \/ /\ IsIpv4Text(host)
          /\ is_non_global_v4(<<OctetValue(host[1]), OctetValue(host[3]),
                                OctetValue(host[5]), OctetValue(host[7])>>)

\* The name the resolver is asked for, from the host string
NameOf(host) == CHOOSE n \in HostNames : Dotted(n) = host

\* validate_resolved_host_is_public with validate_resolved_ips_are_public
validate_resolved_host_is_public(host, dns) ==
    LET ips == IF \E n \in HostNames : Dotted(n) = host THEN dns[NameOf(host)] ELSE {}
    IN IF ips = {} THEN VErr(<<"Failed to resolve host '">> \o host \o <<"'">>)
       ELSE IF \E ip \in ips : IF ip.v = 4 THEN is_non_global_v4(ip.a) ELSE is_non_global_v6(ip.a)
       THEN VErr(<<"Blocked host '">> \o host \o <<"' resolved to non-global address">>)
       ELSE VOk(host)

\* The domain lists as the strings the tool holds
DomainStrings(domains) == [i \in DOMAIN domains |-> Dotted(domains[i])]

\* validate_target_url
validate_target_url(raw_url, allowed_domains, blocked_domains, dns) ==
    LET url == str_trim(raw_url)
        h == extract_host(url)
    IN IF url = <<>> THEN VErr(<<"URL cannot be empty">>)
       ELSE IF Contains(url, " ") THEN VErr(<<"URL cannot contain whitespace">>)
       ELSE IF Head(url) \notin {"http://", "https://"}
       THEN VErr(<<"Only http:// and https:// URLs are allowed">>)
       ELSE IF allowed_domains = <<>>
       THEN VErr(<<"web_fetch", "tool is enabled but no allowed_domains are configured">>)
       ELSE IF ~h.ok THEN h
       ELSE IF is_private_or_local_host(h.value)
       THEN VErr(<<"Blocked", "local/private", "host:">> \o h.value)
       ELSE IF host_matches_allowlist(h.value, blocked_domains)
       THEN VErr(<<"Host '">> \o h.value \o <<"' is in", "web_fetch", ".blocked_domains">>)
       ELSE IF ~host_matches_allowlist(h.value, allowed_domains)
       THEN VErr(<<"Host '">> \o h.value \o <<"' is not in", "web_fetch", ".allowed_domains">>)
       ELSE IF ~validate_resolved_host_is_public(h.value, dns).ok
       THEN validate_resolved_host_is_public(h.value, dns)
       ELSE VOk(url)

\* WebFetchTool::validate_url on a URL record, with the tool's lists
validate_url(cfg, u) ==
    validate_target_url(UrlString(u), DomainStrings(cfg.allowed), DomainStrings(cfg.blocked), cfg.dns)

\* The configurations of the tool: normalized domain lists (label sequences),
\* the resolver table, the provider
WebConfigs ==
    [allowed : { <<>>, << <<"example", "com">> >>, << <<"*">> >> },
     blocked : { <<>>, << <<"evil", "example", "com">> >> },
     dns : DnsTables,
     provider : {"fast_html2md", "firecrawl"}]

\* The Location targets a server answers with: URLs as reqwest::Url prints
\* them (no whitespace, lowercase host)
Locations ==
    { u \in UrlRecs :
        /\ u.pad = "none" /\ ~u.dot /\ ~u.port /\ u.path /\ ~u.userinfo
        /\ u.scheme \in {"http", "https"}
        /\ u.host \in {ExampleCom, DocsExampleCom, NotExampleCom, EvilExampleCom,
                       RebindExampleCom, LoopbackLiteral, Localhost} }

NoCheck == [url |-> NoUrl, res |-> VErr(<<>>)]

IdleWeb ==
    /\ web_cfg = [allowed |-> <<>>, blocked |-> <<>>, dns |-> DnsBase, provider |-> "fast_html2md"]
    /\ web_pc = "idle"
    /\ web_checked = NoCheck
    /\ web_wire = NoUrl
    /\ web_url = NoUrl
    /\ web_prev = 0
    /\ web_ret = NoRet

\* WebFetchTool::new
WebFetchTool_new ==
    /\ web_cfg \in WebConfigs
    /\ web_pc = "idle"
    /\ web_checked = NoCheck
    /\ web_wire = NoUrl
    /\ web_url = NoUrl
    /\ web_prev = 0
    /\ web_ret = NoRet

\* anyhow::Result::Err returned by execute
ExecErr(msg) == [kind |-> "Err", success |-> FALSE, output |-> <<>>, error |-> Some(msg)]

\* WebFetchTool::execute up to its first await (the tool's fields are
\* immutable, so the model follows one call): the url parameter (absent or
\* not a string), the security policy (read-only, rate limit), validate_url;
\* then the provider's request (the http providers request the URL itself,
\* the others post it to their API).
WebExecute ==
    /\ web_pc = "idle"
    /\ web_ret = NoRet
    /\ \/ /\ web_ret' = ExecErr(<<"Missing 'url' parameter">>)
          /\ UNCHANGED <<web_pc, web_checked, web_wire, web_url, web_prev>>
       \/ /\ web_ret' = ToolResult(FALSE, <<>>, Some(<<"Action blocked: autonomy is read-only">>))
          /\ UNCHANGED <<web_pc, web_checked, web_wire, web_url, web_prev>>
       \/ /\ web_ret' = ToolResult(FALSE, <<>>, Some(<<"Action blocked: rate limit exceeded">>))
          /\ UNCHANGED <<web_pc, web_checked, web_wire, web_url, web_prev>>
       \/ \E u \in UrlRecs \cup {EmptyUrl} :
             LET res == validate_url(web_cfg, u)
             IN /\ web_checked' = [url |-> u, res |-> res]
                /\ IF ~res.ok
                   THEN /\ web_ret' = ToolResult(FALSE, <<>>, Some(res.err))
                        /\ UNCHANGED <<web_pc, web_wire, web_url, web_prev>>
                   ELSE /\ web_url' = u
                        /\ web_wire' = IF web_cfg.provider = "fast_html2md" THEN u ELSE NoUrl
                        /\ web_pc' = "provider"
                        /\ web_prev' = 0
                        /\ UNCHANGED web_ret
    /\ UNCHANGED <<web_cfg, notWeb>>

\* The provider's request answers. fetch_with_http_provider does not follow a
\* redirect: it validates the Location and returns. execute drops the
\* provider's result, builds the client with the custom redirect policy and
\* sends its own request for the URL.
WebProviderDone ==
    /\ web_pc = "provider"
    /\ \E redirected \in BOOLEAN, build_ok \in BOOLEAN :
          /\ IF redirected /\ web_cfg.provider = "fast_html2md"
             THEN \E loc \in Locations :
                     web_checked' = [url |-> loc, res |-> validate_url(web_cfg, loc)]
             ELSE UNCHANGED web_checked
          /\ IF build_ok
             THEN /\ web_wire' = web_url
                  /\ web_pc' = "sent"
                  /\ UNCHANGED web_ret
             ELSE /\ web_wire' = NoUrl
                  /\ web_pc' = "idle"
                  /\ web_ret' = ToolResult(FALSE, <<>>, Some(<<"Failed to build HTTP client:">>))
    /\ web_url' = NoUrl
    /\ UNCHANGED <<web_cfg, web_prev, notWeb>>

\* Variant of redirect_policy that follows every redirect below the hop limit
redirect_policy_follow_all(cfg, previous, loc) ==
    IF previous >= MAX_REDIRECTS
    THEN VErr(<<"Too many redirects (max 10)">>)
    ELSE VOk(UrlString(loc))

\* The redirect policy's verdict on the attempt to go to loc when `previous`
\* URLs of the chain have been requested
redirect_policy(cfg, previous, loc) ==
    IF previous >= MAX_REDIRECTS
    THEN VErr(<<"Too many redirects (max 10)">>)
    ELSE LET res == validate_url(cfg, loc)
         IN IF ~res.ok THEN VErr(<<"Blocked redirect target:">> \o res.err)
            ELSE VOk(res.value)

\* The server answers the request with a redirect to loc: the URL just
\* requested joins the previous ones, the policy decides, and the client
\* either requests loc or fails the send (the reqwest error prints the
\* policy's error as its source).
WebRedirect ==
    /\ web_pc = "sent"
    /\ \E loc \in Locations :
          LET previous == web_prev + 1
              verdict == redirect_policy(web_cfg, previous, loc)
          IN /\ web_prev' = previous
             /\ IF previous < MAX_REDIRECTS
                THEN web_checked' = [url |-> loc, res |-> validate_url(web_cfg, loc)]
                ELSE UNCHANGED web_checked
             /\ IF verdict.ok
                THEN /\ web_wire' = loc
                     /\ UNCHANGED <<web_pc, web_ret>>
                ELSE /\ web_wire' = NoUrl
                     /\ web_pc' = "idle"
                     /\ web_ret' = ToolResult(FALSE, <<>>,
                            Some(<<"HTTP request failed:", "error following redirect:">> \o verdict.err))
    /\ UNCHANGED <<web_cfg, web_url, notWeb>>

\* The server answers with a final response (or the send fails): execute
\* returns the converted body or the failure.
WebResponse ==
    /\ web_pc = "sent"
    /\ \E outcome \in {"ok", "send_error", "http_error", "content_type", "body_error"} :
          web_ret' =
             IF outcome = "ok" THEN ToolResult(TRUE, <<"page text">>, None)
             ELSE IF outcome = "send_error"
             THEN ToolResult(FALSE, <<>>, Some(<<"HTTP request failed:", "connection refused">>))
             ELSE IF outcome = "http_error"
             THEN ToolResult(FALSE, <<>>, Some(<<"HTTP", "404", "Not Found">>))
             ELSE IF outcome = "content_type"
             THEN ToolResult(FALSE, <<>>, Some(<<"Unsupported content type:", "image/png">>))
             ELSE ToolResult(FALSE, <<>>, Some(<<"Failed to read response body:">>))
    /\ web_wire' = NoUrl
    /\ web_pc' = "idle"
    /\ UNCHANGED <<web_cfg, web_checked, web_url, web_prev, notWeb>>

NextWeb ==
    \/ WebExecute
    \/ WebProviderDone
    \/ WebRedirect
    \/ WebResponse

(***************************************************************************)
(* Subprocess plugin tool                                                  *)
(***************************************************************************)
SUBPROCESS_TIMEOUT_SECS == 10

\* Units of data the stdin pipe holds before a write to it blocks
PipeCapacity == 2

\* Sizes of the serialised arguments, in the same units: one that fits the
\* pipe together with its newline, and one that does not
ArgSizes == {1, PipeCapacity + 1}

\* manifest.tool.name
PluginName == "sleep_tool"

\* A stdout line: what it holds (nothing, a ToolResult object, the object
\* {"success":false,"output":"partial","error":null}, other text, bytes
\* that are not UTF-8), whether whitespace surrounds it, and the
\* success field of the object.
Line(body, pad, success) == [body |-> body, pad |-> pad, success |-> success]
NoLine == Line("none", FALSE, FALSE)
\* read_line at end of file: Ok(0), the line stays empty
EofLine == Line("empty", FALSE, FALSE)
Lines ==
    { Line("empty", FALSE, FALSE), Line("empty", TRUE, FALSE),
      Line("text", FALSE, FALSE), Line("invalid_utf8", FALSE, FALSE),
      Line("result", TRUE, TRUE), Line("result", FALSE, FALSE),
      Line("bare_result", FALSE, FALSE) }

\* Exit codes of a plugin that exits by itself, and the status of a killed one
ExitCodes == {0, 1}
SIGKILL == 9

\* Option<ExitStatus>
NoStatus == [some |-> FALSE, code |-> 0, signal |-> 0]
Exited(code) == [some |-> TRUE, code |-> code, signal |-> 0]
Signaled(sig) == [some |-> TRUE, code |-> 0, signal |-> sig]
\* ExitStatus::success
status_success(status) == status.signal = 0 /\ status.code = 0
\* Display of ExitStatus
status_text(status) ==
    IF status.signal # 0 THEN <<"signal:", ToString(status.signal)>>
    ELSE <<"exit status:", ToString(status.code)>>

\* The child process: not spawned, running, exited (a zombie), reaped; its
\* status once it has exited; whether the host has called kill on it
NoChild == [state |-> "none", status |-> NoStatus, kill_called |-> FALSE]
Spawned == [state |-> "running", status |-> NoStatus, kill_called |-> FALSE]

\* Child::kill: SIGKILL ends a running child; an exited one keeps its status
kill(child) ==
    IF child.state = "running"
    THEN [state |-> "exited", status |-> Signaled(SIGKILL), kill_called |-> TRUE]
    ELSE [child EXCEPT !.kill_called = TRUE]

\* Locals of execute: the branch of `match read_result`, the line read, and
\* child_status
NoLocal == [branch |-> "none", line |-> NoLine, status |-> NoStatus]

IdleSub ==
    /\ sub_pc = "idle"
    /\ sub_child = NoChild
    /\ sub_stdin = [todo |-> 0, buf |-> 0]
    /\ sub_stdout = NoLine
    /\ sub_stderr = <<>>
    /\ sub_local = NoLocal
    /\ sub_ret = NoRet

\* str::trim of the line
line_trim(line) == [line EXCEPT !.pad = FALSE]
\* str::is_empty
line_is_empty(line) == line.body = "empty" /\ ~line.pad
\* serde_json::from_str::<ToolResult>
from_str(line) ==
    IF line.body = "result" /\ ~line.pad
    THEN [ok |-> TRUE,
          value |-> IF line.success THEN ToolResult(TRUE, <<"ok">>, None)
                    ELSE ToolResult(FALSE, <<>>, Some(<<"plugin failed">>))]
    ELSE IF line.body = "bare_result" /\ ~line.pad
    THEN [ok |-> TRUE, value |-> ToolResult(FALSE, <<"partial">>, None)]
    ELSE [ok |-> FALSE, value |-> NoRet]

\* The `; stderr: ...` suffix of the error messages
stderr_suffix(stderr_msg) ==
    IF stderr_msg = <<>> THEN <<>> ELSE <<"; stderr:">> \o stderr_msg

\* Variant of sub_result that returns the parsed result whatever the exit
\* status is
sub_result_ignore_status(branch, line, status, stderr_msg) ==
    IF branch = "timeout"
    THEN ToolResult(FALSE, <<>>,
            Some(<<"plugin", PluginName, "timed out after",
                   ToString(SUBPROCESS_TIMEOUT_SECS), "s">> \o stderr_suffix(stderr_msg)))
    ELSE IF branch = "io_error"
    THEN ToolResult(FALSE, <<>>,
            Some(<<"plugin", PluginName, "I/O error reading stdout:">>
                 \o stderr_suffix(stderr_msg)))
    ELSE LET l == line_trim(line)
         IN IF line_is_empty(l)
            THEN ToolResult(FALSE, <<>>,
                    Some(<<"plugin", PluginName, "empty stdout">> \o stderr_suffix(stderr_msg)))
            ELSE IF from_str(l).ok
            THEN from_str(l).value
            ELSE ToolResult(FALSE, <<>>,
                    Some(<<"plugin", PluginName, "failed to parse output as ToolResult:">>))

\* The value execute returns from each branch of `match read_result`
sub_result(branch, line, status, stderr_msg) ==
    IF branch = "timeout"
    THEN ToolResult(FALSE, <<>>,
            Some(<<"plugin", PluginName, "timed out after",
                   ToString(SUBPROCESS_TIMEOUT_SECS), "s">> \o stderr_suffix(stderr_msg)))
    ELSE IF branch = "io_error"
    THEN ToolResult(FALSE, <<>>,
            Some(<<"plugin", PluginName, "I/O error reading stdout:">>
                 \o stderr_suffix(stderr_msg)))
    ELSE LET l == line_trim(line)
         IN IF line_is_empty(l)
            THEN ToolResult(FALSE, <<>>,
                    Some(<<"plugin", PluginName, "empty stdout">> \o stderr_suffix(stderr_msg)))
            ELSE IF from_str(l).ok
            THEN IF status.some /\ ~status_success(status)
                 THEN ToolResult(FALSE, <<>>,
                         Some(<<"plugin", PluginName, "exited with">> \o status_text(status)
                              \o stderr_suffix(stderr_msg)))
                 ELSE from_str(l).value
            ELSE ToolResult(FALSE, <<>>,
                    Some(<<"plugin", PluginName, "failed to parse output as ToolResult:">>))

\* execute up to the first write: spawn fails (Err), or the child runs with
\* piped stdin, stdout and stderr and the arguments are to be written
SubExecute ==
    /\ sub_pc = "idle"
    /\ \/ /\ sub_ret' = ExecErr(<<"failed to spawn plugin", PluginName>>)
          /\ sub_child' = NoChild
          /\ sub_stdin' = [todo |-> 0, buf |-> 0]
          /\ UNCHANGED sub_pc
       \/ \E size \in ArgSizes :
             /\ sub_child' = Spawned
             /\ sub_stdin' = [todo |-> size + 1, buf |-> 0]
             /\ sub_pc' = "writing"
             /\ UNCHANGED sub_ret
    /\ sub_stdout' = NoLine
    /\ sub_stderr' = <<>>
    /\ sub_local' = NoLocal
    /\ UNCHANGED notSub

\* stdin.write_all of the arguments and of the newline: the write moves what
\* the pipe has room for and waits when the pipe is full; it fails when the
\* child is gone, and then execute kills the child and returns Err; when all
\* is written stdin is dropped and execute goes on to read_line.
SubWriteStdin ==
    /\ sub_pc = "writing"
    /\ IF sub_child.state # "running"
       THEN /\ sub_child' = [kill(sub_child) EXCEPT !.state = "reaped"]
            /\ sub_ret' = ExecErr(IF sub_stdin.todo > 1
                                  THEN <<"failed to write args to plugin", PluginName, "stdin:">>
                                  ELSE <<"failed to write newline to plugin", PluginName, "stdin:">>)
            /\ sub_pc' = "idle"
            /\ UNCHANGED sub_stdin
       ELSE /\ sub_stdin.buf < PipeCapacity
            /\ LET n == Min(sub_stdin.todo, PipeCapacity - sub_stdin.buf)
               IN /\ sub_stdin' = [todo |-> sub_stdin.todo - n, buf |-> sub_stdin.buf + n]
                  /\ sub_pc' = IF sub_stdin.todo = n THEN "reading" ELSE "writing"
            /\ UNCHANGED <<sub_child, sub_ret>>
    /\ UNCHANGED <<sub_stdout, sub_stderr, sub_local, notSub>>

\* reader.read_line completes inside the deadline, with the plugin's line or
\* at end of file: a line that is not UTF-8 is an I/O error (kill), any
\* other goes to the `Ok(Ok(line))` branch, which waits for the child.
SubReadLine ==
    /\ sub_pc = "reading"
    /\ sub_stdout # NoLine \/ sub_child.state # "running"
    /\ LET line == IF sub_stdout # NoLine THEN sub_stdout ELSE EofLine
       IN IF line.body = "invalid_utf8"
          THEN /\ sub_child' = kill(sub_child)
               /\ sub_local' = [branch |-> "io_error", line |-> NoLine, status |-> NoStatus]
               /\ sub_pc' = "killed"
          ELSE /\ sub_local' = [branch |-> "line", line |-> line, status |-> NoStatus]
               /\ sub_pc' = "waiting"
               /\ UNCHANGED sub_child
    /\ UNCHANGED <<sub_stdin, sub_stdout, sub_stderr, sub_ret, notSub>>

\* Variant of SubDeadline that leaves the child alone when the deadline
\* elapses
SubDeadline_no_kill ==
    /\ sub_pc = "reading"
    /\ sub_stdout = NoLine /\ sub_child.state = "running"
    /\ sub_local' = [branch |-> "timeout", line |-> NoLine, status |-> NoStatus]
    /\ sub_pc' = "collect"
    /\ UNCHANGED <<sub_child, sub_stdin, sub_stdout, sub_stderr, sub_ret, notSub>>

\* The read deadline elapses with no line and no end of file: child.kill
SubDeadline ==
    /\ sub_pc = "reading"
    /\ sub_stdout = NoLine /\ sub_child.state = "running"
    /\ sub_child' = kill(sub_child)
    /\ sub_local' = [branch |-> "timeout", line |-> NoLine, status |-> NoStatus]
    /\ sub_pc' = "killed"
    /\ UNCHANGED <<sub_stdin, sub_stdout, sub_stderr, sub_ret, notSub>>

\* child.wait after the kill: the child is reaped
SubReap ==
    /\ sub_pc = "killed"
    /\ sub_child.state = "exited"
    /\ sub_child' = [sub_child EXCEPT !.state = "reaped"]
    /\ sub_pc' = "collect"
    /\ UNCHANGED <<sub_stdin, sub_stdout, sub_stderr, sub_local, sub_ret, notSub>>

\* Variant of SubWaitDone that kills the child once the line is read instead
\* of waiting for its exit
SubWaitDone_kill ==
    /\ sub_pc = "waiting"
    /\ \E status \in {kill(sub_child).status, NoStatus} :
          sub_local' = [sub_local EXCEPT !.status = status]
    /\ sub_child' = [kill(sub_child) EXCEPT !.state = "reaped"]
    /\ sub_pc' = "collect"
    /\ UNCHANGED <<sub_stdin, sub_stdout, sub_stderr, sub_ret, notSub>>

\* child.wait().await.ok() in the `Ok(Ok(line))` branch: it completes when
\* the child has exited, with its status or, when waiting fails, with None
SubWaitDone ==
    /\ sub_pc = "waiting"
    /\ sub_child.state = "exited"
    /\ \E status \in {sub_child.status, NoStatus} :
          sub_local' = [sub_local EXCEPT !.status = status]
    /\ sub_child' = [sub_child EXCEPT !.state = "reaped"]
    /\ sub_pc' = "collect"
    /\ UNCHANGED <<sub_stdin, sub_stdout, sub_stderr, sub_ret, notSub>>

\* collect_stderr and the returned value
SubCollect ==
    /\ sub_pc = "collect"
    /\ sub_ret' = sub_result(sub_local.branch, sub_local.line, sub_local.status, sub_stderr)
    /\ sub_pc' = "idle"
    /\ UNCHANGED <<sub_child, sub_stdin, sub_stdout, sub_stderr, sub_local, notSub>>

\* The plugin reads what is in its stdin pipe
PluginReadStdin ==
    /\ sub_child.state = "running"
    /\ sub_stdin.buf > 0
    /\ sub_stdin' = [sub_stdin EXCEPT !.buf = 0]
    /\ UNCHANGED <<sub_pc, sub_child, sub_stdout, sub_stderr, sub_local, sub_ret, notSub>>

\* The plugin writes its first stdout line
PluginWriteLine ==
    /\ sub_child.state = "running"
    /\ sub_stdout = NoLine
    /\ sub_stdout' \in Lines
    /\ UNCHANGED <<sub_pc, sub_child, sub_stdin, sub_stderr, sub_local, sub_ret, notSub>>

\* The plugin writes to stderr
PluginWriteStderr ==
    /\ sub_child.state = "running"
    /\ sub_stderr = <<>>
    /\ sub_stderr' = <<"boom">>
    /\ UNCHANGED <<sub_pc, sub_child, sub_stdin, sub_stdout, sub_local, sub_ret, notSub>>

\* The plugin exits by itself; its ends of the pipes close
PluginExit ==
    /\ sub_child.state = "running"
    /\ \E code \in ExitCodes :
          sub_child' = [sub_child EXCEPT !.state = "exited", !.status = Exited(code)]
    /\ UNCHANGED <<sub_pc, sub_stdin, sub_stdout, sub_stderr, sub_local, sub_ret, notSub>>

NextSub ==
    \/ SubExecute
    \/ SubWriteStdin
    \/ SubReadLine
    \/ SubDeadline
    \/ SubReap
    \/ SubWaitDone
    \/ SubCollect
    \/ PluginReadStdin
    \/ PluginWriteLine
    \/ PluginWriteStderr
    \/ PluginExit

(***************************************************************************)
(* Serial peripheral GPIO tools                                            *)
(***************************************************************************)
SERIAL_TIMEOUT_SECS == 5

\* Commands that may be unanswered or answered-but-unread on the wire when a
\* new call starts
MaxStale == 1

\* The two tools of one SerialPeripheral share its transport
SerialTools == {"gpio_read", "gpio_write"}

\* The pin and value arguments of a call
SerialArgs ==
    [pin : {JsonAbsent, JsonU64(13), JsonStr(<<"13">>)},
     value : {JsonAbsent, JsonU64(1), JsonU64(2)}]

\* The responses of the firmware to a command: ok with data, ok:false with
\* an error text, ok:false alone, and a line that is not JSON
SerialReplies == {"ok", "error", "refused", "garbage"}

NoHolder == "none"

\* Each configured board has its own SerialPeripheral, whose two tools share
\* one SerialTransport. A tool is named by its board and its tool name.
FirstBoard == "A"
SecondBoard == "B"
ToolsOf(boards) == { <<b, t>> : b \in boards, t \in SerialTools }

\* Mutex<SerialStream> with nothing on the wire
IdlePort == [holder |-> NoHolder, tx |-> <<>>, rx |-> <<>>]

\* One board connected, its tools idle
IdleSer ==
    /\ ser_pc = [h \in ToolsOf({FirstBoard}) |-> "idle"]
    /\ ser_port = [b \in {FirstBoard} |-> IdlePort]
    /\ ser_ret = NoRet

\* Two boards connected, their tools idle; of the second board's tools the
\* agent calls gpio_read only
IdleSerTwo ==
    /\ ser_pc = [h \in ToolsOf({FirstBoard}) \cup {<<SecondBoard, "gpio_read">>} |-> "idle"]
    /\ ser_port = [b \in {FirstBoard, SecondBoard} |-> IdlePort]
    /\ ser_ret = NoRet

\* The parameter checks of GpioReadTool::execute and GpioWriteTool::execute:
\* the Err or ToolResult they return before any I/O, or NoRet when the
\* request goes to the transport
serial_check(tool, args) ==
    IF args.pin.t # "u64" THEN ExecErr(<<"Missing 'pin' parameter">>)
    ELSE IF tool = "gpio_read" THEN NoRet
    ELSE IF args.value.t # "u64" THEN ExecErr(<<"Missing 'value' parameter">>)
    ELSE IF args.value.n # 0 /\ args.value.n # 1
    THEN ToolResult(FALSE, <<>>,
            Some(<<"Invalid 'value' parameter: expected 0 or 1, got", ToString(args.value.n)>>))
    ELSE NoRet

\* execute up to transport.request
SerialExecute(h) ==
    /\ ser_pc[h] = "idle"
    /\ Len(ser_port[h[1]].tx) + Len(ser_port[h[1]].rx) <= MaxStale
    /\ \E args \in SerialArgs :
          LET early == serial_check(h[2], args)
          IN IF early # NoRet
             THEN ser_ret' = early /\ UNCHANGED ser_pc
             ELSE ser_pc' = [ser_pc EXCEPT ![h] = "lock"] /\ UNCHANGED ser_ret
    /\ UNCHANGED <<ser_port, notSer>>

\* SerialTransport::request that does not wait for the port
SerialLock_no_wait(h) ==
    /\ ser_pc[h] = "lock"
    /\ ser_port' = [ser_port EXCEPT ![h[1]].holder = h]
    /\ ser_pc' = [ser_pc EXCEPT ![h] = "write"]
    /\ UNCHANGED <<ser_ret, notSer>>

\* SerialTransport::request: self.port.lock().await
SerialLock(h) ==
    /\ ser_pc[h] = "lock"
    /\ ser_port[h[1]].holder = NoHolder
    /\ ser_port' = [ser_port EXCEPT ![h[1]].holder = h]
    /\ ser_pc' = [ser_pc EXCEPT ![h] = "write"]
    /\ UNCHANGED <<ser_ret, notSer>>

\* send_request: write_all and flush of the command line; a failed write
\* returns Err through `?`
SerialWrite(h) ==
    /\ ser_pc[h] = "write"
    /\ \/ /\ ser_port' = [ser_port EXCEPT ![h[1]].tx = Append(@, h[2])]
          /\ ser_pc' = [ser_pc EXCEPT ![h] = "read"]
          /\ UNCHANGED ser_ret
       \/ /\ ser_port' = [ser_port EXCEPT ![h[1]].holder = NoHolder]
          /\ ser_pc' = [ser_pc EXCEPT ![h] = "idle"]
          /\ ser_ret' = ExecErr(<<"serial write failed">>)
    /\ UNCHANGED notSer

\* The firmware of board b answers the oldest unanswered command: its line
\* waits in the host's receive buffer (what the line says is drawn when the
\* host reads it)
DeviceRespond(b) ==
    /\ ser_port[b].tx # <<>>
    /\ ser_port' = [ser_port EXCEPT ![b].tx = Tail(@),
                                    ![b].rx = Append(@, Head(ser_port[b].tx))]
    /\ UNCHANGED <<ser_pc, ser_ret, notSer>>

\* The ToolResult request builds from a response line
serial_result(line) ==
    IF line.reply = "garbage" THEN ExecErr(<<"expected value at line 1 column 1">>)
    ELSE IF line.reply = "ok" THEN ToolResult(TRUE, <<"data of", line.cmd>>, None)
    ELSE IF line.reply = "refused" THEN ToolResult(FALSE, <<"null">>, None)
    ELSE ToolResult(FALSE, <<"null">>, Some(<<"error of", line.cmd>>))

\* send_request reads a line inside the deadline and request returns
SerialRead(h) ==
    /\ ser_pc[h] = "read"
    /\ ser_port[h[1]].rx # <<>>
    /\ \E reply \in SerialReplies :
          ser_ret' = serial_result([cmd |-> Head(ser_port[h[1]].rx), reply |-> reply])
    /\ ser_port' = [ser_port EXCEPT ![h[1]].rx = Tail(@), ![h[1]].holder = NoHolder]
    /\ ser_pc' = [ser_pc EXCEPT ![h] = "idle"]
    /\ UNCHANGED notSer

\* The deadline elapses with no line to read: drain_to_newline starts
SerialTimeout(h) ==
    /\ ser_pc[h] = "read"
    /\ ser_port[h[1]].rx = <<>>
    /\ ser_pc' = [ser_pc EXCEPT ![h] = "drain"]
    /\ UNCHANGED <<ser_port, ser_ret, notSer>>

\* drain_to_newline ends at the first newline or after 200 ms of silence,
\* and request returns Err
SerialDrain(h) ==
    /\ ser_pc[h] = "drain"
    /\ ser_port' = [ser_port EXCEPT ![h[1]].rx = IF @ = <<>> THEN @ ELSE Tail(@),
                                    ![h[1]].holder = NoHolder]
    /\ ser_ret' = ExecErr(<<"Serial request timed out after",
                            ToString(SERIAL_TIMEOUT_SECS), "s">>)
    /\ ser_pc' = [ser_pc EXCEPT ![h] = "idle"]
    /\ UNCHANGED notSer

NextSer ==
    \/ \E h \in DOMAIN ser_pc :
          \/ SerialExecute(h)
          \/ SerialLock(h)
          \/ SerialWrite(h)
          \/ SerialRead(h)
          \/ SerialTimeout(h)
          \/ SerialDrain(h)
    \/ \E b \in DOMAIN ser_port : DeviceRespond(b)

(***************************************************************************)
(* pptx_read                                                               *)
(***************************************************************************)
MAX_PPTX_BYTES == 50 * 1024 * 1024
DEFAULT_MAX_CHARS == 50000
MAX_OUTPUT_CHARS == 200000

\* Longest slide text of the model, in characters
MaxText == 3

\* A path argument and what the security policy and the file system say
\* about it: is_path_allowed, whether it exists, is_resolved_path_allowed
\* of its canonical form, its size, whether it is a PPTX archive, its text.
PptxFile(path, allowed, exists, inside, len, archive, text) ==
    [path |-> path, allowed |-> allowed, exists |-> exists, inside |-> inside,
     len |-> len, archive |-> archive, text |-> text]
PptxFiles ==
    { PptxFile(<<"deck.pptx">>, TRUE, TRUE, TRUE, 1000, TRUE, [i \in 1..MaxText |-> "x"]),
      PptxFile(<<"blank.pptx">>, TRUE, TRUE, TRUE, 1000, TRUE, <<" ">>),
      PptxFile(<<"/etc/passwd">>, FALSE, TRUE, FALSE, 1000, FALSE, <<>>),
      PptxFile(<<"missing.pptx">>, TRUE, FALSE, TRUE, 0, FALSE, <<>>),
      PptxFile(<<"link.pptx">>, TRUE, TRUE, FALSE, 1000, TRUE, <<"s">>),
      PptxFile(<<"huge.pptx">>, TRUE, TRUE, TRUE, MAX_PPTX_BYTES + 1, TRUE, <<"h">>),
      PptxFile(<<"notzip.pptx">>, TRUE, TRUE, TRUE, 1000, FALSE, <<>>) }

FileAt(path) == CHOOSE f \in PptxFiles : f.path = path

\* The arguments of a call
PptxArgs ==
    [path : {JsonAbsent, JsonU64(7)} \cup { JsonStr(f.path) : f \in PptxFiles },
     max_chars : {JsonAbsent, JsonU64(MaxText - 1), JsonU64(MAX_OUTPUT_CHARS + 1)}]

\* What the security policy answers during a call
PptxPolicies == [rate_limited : BOOLEAN, budget : BOOLEAN]

IdlePptx ==
    /\ pptx_ret = NoRet
    /\ pptx_ops = <<>>

\* max_chars as execute computes it
pptx_max_chars(arg) ==
    IF arg.t = "u64" THEN Min(arg.n, MAX_OUTPUT_CHARS) ELSE DEFAULT_MAX_CHARS

\* The text execute returns for a slide text
pptx_output(text, max_chars) ==
    IF Len(text) > max_chars
    THEN SubSeq(text, 1, max_chars) \o <<"... [truncated at", ToString(max_chars), "chars]">>
    ELSE text

PptxFail(msg, ops) == [ret |-> ToolResult(FALSE, <<>>, Some(msg)), ops |-> ops]

\* A resolved-path check that lets every canonical path through
is_resolved_path_allowed_any(f) == TRUE

\* self.security.is_resolved_path_allowed(&resolved_path) for the canonical
\* form of the file's path
is_resolved_path_allowed(f) == f.inside

\* The calls of execute on the security policy and the file system, in the
\* order of the code
PptxCalls ==
    <<"is_rate_limited", "is_path_allowed", "record_action", "canonicalize",
      "is_resolved_path_allowed", "metadata", "read">>
CallsUpTo(n) == SubSeq(PptxCalls, 1, n)

\* PptxReadTool::execute: the value it returns and the calls it makes on the
\* security policy and the file system, in order
pptx_read(args, policy) ==
    IF args.path.t # "string"
    THEN [ret |-> ExecErr(<<"Missing 'path' parameter">>), ops |-> <<>>]
    ELSE LET f == FileAt(args.path.s)
             max_chars == pptx_max_chars(args.max_chars)
         IN IF policy.rate_limited
            THEN PptxFail(<<"Rate limit exceeded: too many actions in the last hour">>,
                          CallsUpTo(1))
            ELSE IF ~f.allowed
            THEN PptxFail(<<"Path not allowed by security policy:">> \o f.path, CallsUpTo(2))
            ELSE IF ~policy.budget
            THEN PptxFail(<<"Rate limit exceeded: action budget exhausted">>, CallsUpTo(3))
            ELSE IF ~f.exists
            THEN PptxFail(<<"Failed to resolve file path:">>, CallsUpTo(4))
            ELSE IF ~is_resolved_path_allowed(f)
            THEN PptxFail(<<"resolved path escapes workspace">>, CallsUpTo(5))
            ELSE IF f.len > MAX_PPTX_BYTES
            THEN PptxFail(<<"PPTX too large:">>, CallsUpTo(6))
            ELSE IF ~f.archive
            THEN PptxFail(<<"PPTX extraction failed:">>, CallsUpTo(7))
            ELSE IF f.text \in {<<>>, <<" ">>}
            THEN [ret |-> ToolResult(TRUE, <<"PPTX contains no extractable text">>, None),
                  ops |-> CallsUpTo(7)]
            ELSE [ret |-> ToolResult(TRUE, pptx_output(f.text, max_chars), None),
                  ops |-> CallsUpTo(7)]

\* The tool keeps no state between calls, so the model follows one call.
PptxExecute ==
    /\ pptx_ret = NoRet
    /\ \E args \in PptxArgs, policy \in PptxPolicies :
          LET r == pptx_read(args, policy)
          IN pptx_ret' = r.ret /\ pptx_ops' = r.ops
    /\ UNCHANGED notPptx

\* The tools that run beside each other in this specification
NextTools ==
    \/ NextSer
    \/ PptxExecute

(***************************************************************************)
(* Gateway intake: POST /api/chat and POST /v1/chat/completions            *)
(* (src/gateway/openclaw_compat.rs)                                        *)
(***************************************************************************)
Requests == {"r1", "r2"}

\* const MAX_CONTEXT_MESSAGES
MAX_CONTEXT_MESSAGES == 10

ApiChat == "/api/chat"
ChatCompletions == "/v1/chat/completions"
Peers == {"loopback", "remote"}

\* What the headers of a request carry: nothing, the Authorization header with
\* a paired or an unknown bearer token, or the X-Webhook-Secret header with
\* the configured secret.
Credentials == {"none", "paired_token", "unknown_token", "webhook_secret"}

\* AppState: pairing.require_pairing(), webhook_secret_hash.is_some(), auto_save
GatewayConfigs == [require_pairing : BOOLEAN, webhook_secret : BOOLEAN, auto_save : BOOLEAN]

\* Uuid::new_v4(): a value no earlier call has returned (the first of the
\* values not yet issued)
Uuids == <<"u1", "u2", "u3">>
new_v4(issued) ==
    Uuids[CHOOSE i \in DOMAIN Uuids :
            /\ Uuids[i] \notin issued
            /\ \A j \in 1..(i - 1) : Uuids[j] \in issued]

\* A line of text with the label put before it ("" for a caller's own line)
TextLine(label, text) == [label |-> label, text |-> text]

\* iter().rev().take(n).rev()
LastN(s, n) == SubSeq(s, Max(1, Len(s) - n + 1), Len(s))

\* The message handed to the agent loop: the subject as it is, or
\* "Recent conversation context:\n{lines}\n\nCurrent message:\n{subject}"
\* with the last ten lines, when there are context lines.
enriched_message(lines, message, take) ==
    IF lines = <<>>
    THEN [framed |-> FALSE, context |-> <<>>, current |-> message]
    ELSE [framed |-> TRUE, context |-> LastN(lines, take), current |-> message]

NoMessage == [framed |-> FALSE, context |-> <<>>, current |-> ""]
NoKey == [prefix |-> "", uuid |-> ""]

Rejected(code) == [status |-> code, subject |-> "", enriched |-> NoMessage]
Accepted(subject, enriched) == [status |-> 0, subject |-> subject, enriched |-> enriched]

\* PairingGuard::is_authenticated on the token of "Authorization: Bearer .."
\* ("" when the header is absent)
is_authenticated(cred) == cred = "paired_token"

\* The two authentication blocks of both handlers: 401 or 0 (passed)
authenticate(cfg, peer, cred) ==
    IF ~cfg.require_pairing /\ ~cfg.webhook_secret /\ peer # "loopback" THEN 401
    ELSE IF cfg.require_pairing /\ ~is_authenticated(cred) THEN 401
    ELSE 0

\* handle_api_chat from "Parse body" to the enriched message
api_chat_intake(body) ==
    IF body.kind # "json" THEN Rejected(400)
    ELSE LET message == trim(body.message)
         IN IF message = "" THEN Rejected(400)
            ELSE Accepted(message, enriched_message(body.context, message, 10))

IsUser(m) == m.role = "user"
IsChatTurn(m) == m.role = "user" \/ m.role = "assistant"

\* messages.iter().rev().find(|m| m.role == "user"): the index, 0 for None
last_user_msg(messages) ==
    LET idx == { i \in DOMAIN messages : IsUser(messages[i]) }
    IN IF idx = {} THEN 0 ELSE CHOOSE i \in idx : \A j \in idx : j <= i

\* The context lines of the shim: the array without its last element, the user
\* and assistant messages of it, each as "User: .." or "Assistant: .."
context_messages(messages) ==
    LET turns == SelectSeq(SubSeq(messages, 1, Len(messages) - 1), IsChatTurn)
    IN [ i \in DOMAIN turns |->
            TextLine(IF turns[i].role = "user" THEN "User: " ELSE "Assistant: ",
                     turns[i].content) ]

\* handle_v1_chat_completions_with_tools from "Body size" to the enriched
\* message
completions_intake(body) ==
    IF body.kind = "too_large" THEN Rejected(413)
    ELSE IF body.kind # "json" THEN Rejected(400)
    ELSE IF body.messages = <<>> THEN Rejected(400)
    ELSE LET i == last_user_msg(body.messages)
         IN IF i = 0 \/ trim(body.messages[i].content) = "" THEN Rejected(400)
            ELSE LET message == body.messages[i].content
                 IN Accepted(message,
                             enriched_message(context_messages(body.messages), message,
                                              MAX_CONTEXT_MESSAGES))

\* ---- request bodies ----
Body(kind, message, lines, messages) ==
    [kind |-> kind, message |-> message, context |-> lines, messages |-> messages,
     session_id |-> NoSession]
\* A native body that carries a session_id
InSession(body, session_id) == [body EXCEPT !.session_id = session_id]
NoBody == Body("none", "", <<>>, <<>>)
Msg(role, content) == [role |-> role, content |-> content]

ApiBodies ==
    { Body("invalid", "", <<>>, <<>>),
      Body("json", "  ", <<>>, <<>>),
      Body("json", " rank ", <<TextLine("", "beta")>>, <<>>),
      InSession(Body("json", "beta", <<>>, <<>>), "s1") }

CompletionBodies ==
    { Body("too_large", "", <<>>, <<>>),
      Body("invalid", "", <<>>, <<>>),
      Body("json", "", <<>>, <<>>),
      Body("json", "", <<>>, <<Msg("system", "beta")>>),
      Body("json", "", <<>>, <<Msg("user", " rank ")>>) }

\* The conversations of the context claim: a history of alternating user and
\* assistant turns followed by a tail of messages of any role, blank or not
MaxHistory == 11
MaxTail == 2
HistoryTexts == <<"h1", "h2", "h3", "h4", "h5", "h6", "h7", "h8", "h9", "h10", "h11", "h12">>
TailTexts == <<"t1", "t2", "t3">>
Roles == {"user", "assistant", "system"}
History(n) ==
    [ i \in 1..n |-> Msg(IF i % 2 = 1 THEN "user" ELSE "assistant", HistoryTexts[i]) ]
Tails ==
    UNION { { t \in [1..n -> [role : Roles, content : {"  "} \cup { TailTexts[j] : j \in 1..MaxTail }]] :
                \A i \in 1..n : t[i].content \in {"  ", TailTexts[i]} } : n \in 0..MaxTail }
Conversations == { History(n) \o t : n \in 0..MaxHistory, t \in Tails }

\* ---- the handlers ----
IdleRequest ==
    [pc |-> "idle", endpoint |-> "", peer |-> "", cred |-> "", messages |-> <<>>,
     subject |-> "", enriched |-> NoMessage, key |-> NoKey, status |-> 0,
     session_id |-> NoSession]

\* ObserverEvent and ObserverMetric values, with the request whose handler
\* recorded them (the success flag is that of LlmResponse)
Observed(r, event, success) == [request |-> r, event |-> event, success |-> success]

IdleGw ==
    /\ gw_cfg = [require_pairing |-> FALSE, webhook_secret |-> FALSE, auto_save |-> FALSE]
    /\ gw_req = [r \in Requests |-> IdleRequest]
    /\ gw_mem = {}
    /\ gw_runs = {}
    /\ gw_events = <<>>

\* The gateway with any configuration, no request received yet
AppState_new ==
    /\ gw_cfg \in GatewayConfigs
    /\ gw_req = [r \in Requests |-> IdleRequest]
    /\ gw_mem = {}
    /\ gw_runs = {}
    /\ gw_events = <<>>

\* A handler from the arrival of the request to its first await or its error
\* response: rate limit, authentication, body checks, subject and context.
handle(r, endpoint, peer, cred, allowed, body) ==
    /\ gw_req[r].pc = "idle"
    /\ LET auth == authenticate(gw_cfg, peer, cred)
           out == IF ~allowed THEN Rejected(429)
                  ELSE IF auth # 0 THEN Rejected(auth)
                  ELSE IF endpoint = ApiChat THEN api_chat_intake(body)
                  ELSE completions_intake(body)
       IN gw_req' = [gw_req EXCEPT ![r] =
                        [pc |-> IF out.status # 0 THEN "done"
                                ELSE IF gw_cfg.auto_save THEN "save" ELSE "run",
                         endpoint |-> endpoint, peer |-> peer, cred |-> cred,
                         messages |-> body.messages,
                         subject |-> out.subject, enriched |-> out.enriched,
                         key |-> NoKey, status |-> out.status,
                         session_id |-> IF out.status # 0 \/ endpoint # ApiChat
                                        THEN NoSession ELSE body.session_id]]
    /\ UNCHANGED <<gw_cfg, gw_mem, gw_runs, gw_events, notGw>>

\* POST /api/chat
HandleApiChat ==
    \E r \in Requests, peer \in Peers, cred \in Credentials, allowed \in BOOLEAN,
       body \in ApiBodies :
        handle(r, ApiChat, peer, cred, allowed, body)

\* POST /v1/chat/completions
HandleChatCompletions ==
    \E r \in Requests, peer \in Peers, cred \in Credentials, allowed \in BOOLEAN,
       body \in CompletionBodies :
        handle(r, ChatCompletions, peer, cred, allowed, body)

\* POST /v1/chat/completions of a local caller with a conversation
HandleConversation ==
    \E messages \in Conversations :
        handle("r1", ChatCompletions, "loopback", "none", TRUE, Body("json", "", <<>>, messages))

\* api_chat_memory_key() when the uuids in `issued` have been returned
api_chat_memory_key(issued) == [prefix |-> "api_chat_msg_", uuid |-> new_v4(issued)]

\* The auto-save block whose failed store ends the request
AutoSave_fail_request(r) ==
    /\ gw_req[r].pc = "save"
    /\ \E stored \in BOOLEAN :
          LET key == api_chat_memory_key({ gw_req[q].key.uuid : q \in Requests })
          IN /\ gw_mem' = IF stored
                          THEN gw_mem \cup {[key |-> key, content |-> gw_req[r].subject,
                                             category |-> "conversation",
                                             session_id |-> NoSession]}
                          ELSE gw_mem
             /\ gw_req' = [gw_req EXCEPT ![r].pc = IF stored THEN "run" ELSE "done",
                                         ![r].status = IF stored THEN 0 ELSE 500,
                                         ![r].key = key]
    /\ UNCHANGED <<gw_cfg, gw_runs, gw_events, notGw>>

\* The auto-save block: a fresh key, the store of the subject in the
\* Conversation category with session None, its result dropped (`let _ =`).
AutoSave(r) ==
    /\ gw_req[r].pc = "save"
    /\ \E stored \in BOOLEAN :
          LET key == api_chat_memory_key({ gw_req[q].key.uuid : q \in Requests })
          IN /\ gw_mem' = IF stored
                          THEN gw_mem \cup {[key |-> key, content |-> gw_req[r].subject,
                                             category |-> "conversation",
                                             session_id |-> NoSession]}
                          ELSE gw_mem
             /\ gw_req' = [gw_req EXCEPT ![r].pc = "run", ![r].key = key]
    /\ UNCHANGED <<gw_cfg, gw_runs, gw_events, notGw>>

\* The observer is told AgentStart and LlmRequest, and
\* run_gateway_chat_with_tools is called with the enriched message
AgentStart(r) ==
    /\ gw_req[r].pc = "run"
    /\ gw_events' = gw_events \o <<Observed(r, "AgentStart", TRUE), Observed(r, "LlmRequest", TRUE)>>
    /\ gw_runs' = gw_runs \cup {[request |-> r, message |-> gw_req[r].enriched]}
    /\ gw_req' = [gw_req EXCEPT ![r].pc = "loop"]
    /\ UNCHANGED <<gw_cfg, gw_mem, notGw>>

\* Variant of AgentFinish whose provider-error path returns 500 without
\* telling the observer AgentEnd
AgentFinish_no_end_on_error(r) ==
    /\ gw_req[r].pc = "loop"
    /\ \E ok \in BOOLEAN :
          /\ gw_events' = gw_events \o
                 (IF ok
                  THEN <<Observed(r, "LlmResponse", ok), Observed(r, "RequestLatency", TRUE),
                         Observed(r, "AgentEnd", TRUE)>>
                  ELSE <<Observed(r, "LlmResponse", ok), Observed(r, "RequestLatency", TRUE)>>)
          /\ gw_req' = [gw_req EXCEPT ![r].pc = "done", ![r].status = IF ok THEN 200 ELSE 500]
    /\ UNCHANGED <<gw_cfg, gw_mem, gw_runs, notGw>>

\* The agent loop answers: the observer is told LlmResponse with the outcome,
\* the RequestLatency metric and AgentEnd, and the handler returns 200 with
\* the reply, or 500
AgentFinish(r) ==
    /\ gw_req[r].pc = "loop"
    /\ \E ok \in BOOLEAN :
          /\ gw_events' = gw_events \o
                 <<Observed(r, "LlmResponse", ok), Observed(r, "RequestLatency", TRUE),
                   Observed(r, "AgentEnd", TRUE)>>
          /\ gw_req' = [gw_req EXCEPT ![r].pc = "done", ![r].status = IF ok THEN 200 ELSE 500]
    /\ UNCHANGED <<gw_cfg, gw_mem, gw_runs, notGw>>

GwSteps == \E r \in Requests : AutoSave(r) \/ AgentStart(r) \/ AgentFinish(r)
NextGw == HandleApiChat \/ HandleChatCompletions \/ GwSteps
NextChat == HandleConversation \/ GwSteps

(***************************************************************************)
(* API key rotation of web_fetch (WebFetchTool::get_next_api_key)          *)
(***************************************************************************)
MaxKeys == 3
MaxKeyCalls == 7
KeyNames == <<"k1", "k2", "k3", "k4">>
KeyLists == { SubSeq(KeyNames, 1, n) : n \in 0..MaxKeys }
Callers == {"c1", "c2"}
NoneKey == "None"
IdleCaller == [pc |-> "idle", idx |-> 0, key |-> ""]

IdleKey ==
    /\ api_keys = <<>>
    /\ key_index = 0
    /\ key_task = [c \in Callers |-> IdleCaller]
    /\ key_seen = <<>>

\* WebFetchTool::new with any list of keys: key_index starts at 0
WebFetchTool_keys ==
    /\ api_keys \in KeyLists
    /\ key_index = 0
    /\ key_task = [c \in Callers |-> IdleCaller]
    /\ key_seen = <<>>

\* The counter a fetch_add that loses its increment would leave
fetch_add_lost(counter) == counter

\* AtomicUsize::fetch_add(1, Relaxed): the counter it leaves
fetch_add(counter) == counter + 1

\* get_next_api_key up to the fetch_add: None at once when there is no key,
\* else the counter value is taken and the counter incremented in one step.
GetNextApiKey(c) ==
    /\ key_task[c].pc = "idle"
    /\ IF api_keys = <<>>
       THEN /\ key_task' = [key_task EXCEPT ![c].key = NoneKey]
            /\ UNCHANGED <<key_index, key_seen>>
       ELSE /\ key_index < MaxKeyCalls
            /\ key_task' = [key_task EXCEPT ![c] = [pc |-> "fetched", idx |-> key_index, key |-> ""]]
            /\ key_index' = fetch_add(key_index)
            /\ key_seen' = Append(key_seen, key_index)
    /\ UNCHANGED <<api_keys, notKey>>

\* get_next_api_key after the fetch_add: the key at idx % len
ReturnApiKey(c) ==
    /\ key_task[c].pc = "fetched"
    /\ key_task' = [key_task EXCEPT ![c] =
                       [pc |-> "idle", idx |-> key_task[c].idx,
                        key |-> api_keys[(key_task[c].idx % Len(api_keys)) + 1]]]
    /\ UNCHANGED <<api_keys, key_index, key_seen, notKey>>

NextKey == \E c \in Callers : GetNextApiKey(c) \/ ReturnApiKey(c)

(***************************************************************************)
(* Hardware tools merged into the agent's tool list (hardware/mod.rs)      *)
(***************************************************************************)
MaxHwTools == 2
MaxAgentTools == 5
HwNames == {"shell", "gpio_read", "gpio_write"}
NameLists(n) == UNION { [1..k -> HwNames] : k \in 0..n }
Distinct(names) == \A i, j \in DOMAIN names : names[i] = names[j] => i = j
NoMerge == [hw_tools |-> <<>>, added |-> <<>>]

IdleHw ==
    /\ agent_tools = <<>>
    /\ hw_merge = NoMerge

\* The agent's tool list before the hardware boot: any list of distinct names
AgentTools_new ==
    /\ agent_tools \in { names \in NameLists(MaxHwTools) : Distinct(names) }
    /\ hw_merge = NoMerge

\* merge_hardware_tools: the tool list it leaves and the names it returns
merge_hardware_tools(tools, hw_tools) ==
    LET existing == { tools[i] : i \in DOMAIN tools }
        is_new(name) == name \notin existing
        new_hw_tools == SelectSeq(hw_tools, is_new)
    IN [tools |-> tools \o new_hw_tools, added |-> new_hw_tools]

MergeHardwareTools ==
    \E hw_tools \in NameLists(MaxHwTools) :
        LET merged_tools == merge_hardware_tools(agent_tools, hw_tools)
        IN /\ Len(merged_tools.tools) <= MaxAgentTools
           /\ agent_tools' = merged_tools.tools
           /\ hw_merge' = [hw_tools |-> hw_tools, added |-> merged_tools.added]
           /\ UNCHANGED notHw

NextHw == MergeHardwareTools

(***************************************************************************)
(* Discovery of serial devices (DeviceRegistry::discover)                  *)
(***************************************************************************)
MaxPorts == 2
PortPaths == <<"/dev/ttyACM0", "/dev/ttyUSB0", "/dev/ttyUSB1">>

\* USB vendor ids a scan reports: none (0), Raspberry Pi (0x2e8a), Arduino
\* (0x2341), and the vendor of a USB-serial adapter (0x0403)
Vids == {0, 11914, 9025, 1027}

\* What scan_serial_devices() reports for a port, and whether ZeroClaw
\* firmware is listening behind it
SerialDeviceInfo(port_path, vid, firmware) ==
    [port_path |-> port_path, vid |-> vid, firmware |-> firmware]
Scans ==
    UNION { [1..n -> [vid : Vids, firmware : BOOLEAN]] : n \in 0..MaxPorts }
ScanList(s) == [ i \in DOMAIN s |-> SerialDeviceInfo(PortPaths[i], s[i].vid, s[i].firmware) ]

IdleDisc ==
    /\ disc_pc = "returned"
    /\ disc_scan = <<>>
    /\ disc_found = {}

\* discover() with the list scan_serial_devices() returned and an empty
\* registry
DeviceRegistry_discover ==
    /\ disc_pc = "scan"
    /\ disc_scan \in { ScanList(s) : s \in Scans }
    /\ disc_found = {}

\* DeviceKind::from_vid
from_vid(vid) ==
    IF vid = 11914 THEN "Pico"
    ELSE IF vid = 9025 THEN "Arduino"
    ELSE IF vid = 4292 THEN "Esp32"
    ELSE IF vid = 1155 THEN "Nucleo"
    ELSE "None"

\* The kind register() gives a device discover() passes it (vid 0 as None):
\* vid.and_then(from_vid).unwrap_or(Generic)
kind_of(vid) == IF vid = 0 \/ from_vid(vid) = "None" THEN "Generic" ELSE from_vid(vid)

\* let is_known_vid = info.vid != 0
is_known_vid(info) == info.vid # 0

Registered(info) == [info |-> info, kind |-> kind_of(info.vid)]

\* One turn of the loop for a device with a known vid: register and attach,
\* no await
DiscoverKnown ==
    /\ disc_pc = "scan" /\ disc_scan # <<>>
    /\ is_known_vid(Head(disc_scan))
    /\ disc_found' = disc_found \cup {Registered(Head(disc_scan))}
    /\ disc_scan' = Tail(disc_scan)
    /\ UNCHANGED <<disc_pc, notDisc>>

\* One turn of the loop for a device without a known vid: the ping handshake
\* of the probe transport starts
DiscoverProbe ==
    /\ disc_pc = "scan" /\ disc_scan # <<>>
    /\ ~is_known_vid(Head(disc_scan))
    /\ disc_pc' = "probing"
    /\ UNCHANGED <<disc_scan, disc_found, notDisc>>

\* ping_handshake() answers: false skips the port, true registers the device
\* and attaches the probe transport. Only ZeroClaw firmware answers a ping,
\* and not always within the 300 ms.
DiscoverProbeDone ==
    /\ disc_pc = "probing"
    /\ \E answered \in {FALSE, Head(disc_scan).firmware} :
          disc_found' = IF answered THEN disc_found \cup {Registered(Head(disc_scan))}
                        ELSE disc_found
    /\ disc_scan' = Tail(disc_scan)
    /\ disc_pc' = "scan"
    /\ UNCHANGED notDisc

\* The loop is over: the registry is returned
DiscoverReturn ==
    /\ disc_pc = "scan" /\ disc_scan = <<>>
    /\ disc_pc' = "returned"
    /\ UNCHANGED <<disc_scan, disc_found, notDisc>>

NextDisc == DiscoverKnown \/ DiscoverProbe \/ DiscoverProbeDone \/ DiscoverReturn

(***************************************************************************)
(* web_fetch: the domain lists                                             *)
(***************************************************************************)
\* Number of raw entries in a configured list
MaxRaw == 2

\* A raw list entry as its string: surrounding whitespace, a scheme, a
\* leading dot, the name, a trailing dot, a port, a path
RawDomain(pad, scheme, lead, labels, dot, port, path) ==
    (IF pad THEN <<" ">> ELSE <<>>)
    \o (IF scheme = "" THEN <<>> ELSE <<scheme \o "://">>)
    \o (IF lead THEN <<".">> ELSE <<>>)
    \o Dotted(labels)
    \o (IF dot THEN <<".">> ELSE <<>>)
    \o (IF port THEN <<":", "8080">> ELSE <<>>)
    \o (IF path THEN <<"/", "admin">> ELSE <<>>)
    \o (IF pad THEN <<" ">> ELSE <<>>)

\* The raw entries of the model: plain and decorated names, the wildcard, an
\* empty entry, a blank one and one with whitespace inside
RawDomains ==
    { RawDomain(FALSE, "", FALSE, <<"example", "com">>, FALSE, FALSE, FALSE),
      RawDomain(TRUE, "", FALSE, <<"EXAMPLE", "com">>, FALSE, FALSE, FALSE),
      RawDomain(FALSE, "https", FALSE, <<"example", "com">>, FALSE, FALSE, TRUE),
      RawDomain(FALSE, "http", FALSE, <<"docs", "example", "com">>, FALSE, FALSE, FALSE),
      RawDomain(FALSE, "", TRUE, <<"example", "com">>, TRUE, FALSE, FALSE),
      RawDomain(FALSE, "", FALSE, <<"docs", "example", "com">>, FALSE, TRUE, FALSE),
      RawDomain(FALSE, "", FALSE, <<"example", "com">>, TRUE, TRUE, FALSE),
      RawDomain(FALSE, "", FALSE, <<"*">>, FALSE, FALSE, FALSE),
      <<>>,
      <<" ", " ">>,
      <<"example", " ", "com">> }

RECURSIVE ListsUpTo(_, _)
ListsUpTo(S, n) ==
    IF n = 0 THEN {<<>>}
    ELSE ListsUpTo(S, n - 1) \cup { Append(l, x) : l \in { k \in ListsUpTo(S, n - 1) : Len(k) = n - 1 }, x \in S }

\* str::trim_start_matches('.')
RECURSIVE trim_start_dots(_)
trim_start_dots(s) == IF s # <<>> /\ Head(s) = "." THEN trim_start_dots(Tail(s)) ELSE s

\* str::strip_prefix of a scheme: the rest, or s when s does not start with it
strip_prefix(s, prefix) == IF s # <<>> /\ Head(s) = prefix THEN Tail(s) ELSE s

\* normalize_domain: the normalized entry as a list of one string, or the
\* empty list for None (what filter_map keeps)
normalize_domain(raw) ==
    LET d0 == to_lowercase(str_trim(raw))
        d1 == IF strip_prefix(d0, "https://") # d0 THEN strip_prefix(d0, "https://")
              ELSE strip_prefix(d0, "http://")
        d2 == Before(d1, {"/"})
        d3 == trim_end_dots(trim_start_dots(d2))
        d4 == Before(d3, {":"})
    IN IF d0 = <<>> THEN <<>>
       ELSE IF d4 = <<>> \/ Contains(d4, " ") THEN <<>>
       ELSE <<d4>>

\* The pieces of the strings in the order of their first bytes (no piece
\* starts another), which makes the order of two strings the order of
\* their first differing pieces
ByteOrder == <<" ", "*", ".", "/", "8080", ":", "admin", "com", "docs", "example">>
ByteRank(t) == CHOOSE i \in DOMAIN ByteOrder : ByteOrder[i] = t

\* Ord for str: a < b
RECURSIVE str_lt(_, _)
str_lt(a, b) ==
    IF b = <<>> THEN FALSE
    ELSE IF a = <<>> THEN TRUE
    ELSE IF Head(a) # Head(b) THEN ByteRank(Head(a)) < ByteRank(Head(b))
    ELSE str_lt(Tail(a), Tail(b))

\* Vec::sort_unstable
RECURSIVE sort_unstable(_)
sort_unstable(list) ==
    IF list = <<>> THEN <<>>
    ELSE LET least == CHOOSE i \in DOMAIN list : \A j \in DOMAIN list : ~str_lt(list[j], list[i])
             rest == [k \in 1..(Len(list) - 1) |-> IF k < least THEN list[k] ELSE list[k + 1]]
         IN <<list[least]>> \o sort_unstable(rest)

\* Vec::dedup: consecutive equal elements are reduced to the first
RECURSIVE dedup(_)
dedup(list) ==
    IF Len(list) <= 1 THEN list
    ELSE IF list[1] = list[2] THEN dedup(Tail(list))
    ELSE <<list[1]>> \o dedup(Tail(list))

RECURSIVE filter_map_normalize(_)
filter_map_normalize(domains) ==
    IF domains = <<>> THEN <<>>
    ELSE normalize_domain(Head(domains)) \o filter_map_normalize(Tail(domains))

\* normalize_allowed_domains
normalize_allowed_domains(domains) == dedup(sort_unstable(filter_map_normalize(domains)))

NotNormalized == << <<"?">> >>
NoValidation == [url |-> <<>>, first |-> VErr(<<>>), again |-> VErr(<<>>)]

IdleNorm ==
    /\ norm_in = <<>>
    /\ norm_out = NotNormalized
    /\ norm_val = NoValidation

\* The raw allowed_domains WebFetchTool::new is called with
WebFetchTool_domains ==
    /\ norm_in \in ListsUpTo(RawDomains, MaxRaw)
    /\ norm_out = NotNormalized
    /\ norm_val = NoValidation

\* WebFetchTool::new: allowed_domains: normalize_allowed_domains(allowed_domains)
NormalizeAllowedDomains ==
    /\ norm_out = NotNormalized
    /\ norm_out' = normalize_allowed_domains(norm_in)
    /\ UNCHANGED <<norm_in, norm_val, notNorm>>

\* normalize_allowed_domains applied to a list it returned
NormalizeAgain ==
    /\ norm_out # NotNormalized
    /\ norm_in' = norm_out
    /\ norm_out' = normalize_allowed_domains(norm_out)
    /\ UNCHANGED <<norm_val, notNorm>>

\* validate_url with the normalized list, on a URL (the model follows one
\* URL per tool)
ValidateUrl ==
    /\ norm_out # NotNormalized
    /\ norm_val = NoValidation
    /\ \E u \in UrlRecs \cup {EmptyUrl} :
          norm_val' = [url |-> UrlString(u),
                       first |-> validate_target_url(UrlString(u), norm_out, <<>>, DnsBase),
                       again |-> VErr(<<>>)]
    /\ UNCHANGED <<norm_in, norm_out, notNorm>>

\* validate_url on the URL it returned
ValidateAgain ==
    /\ norm_val.first.ok
    /\ norm_val' = [norm_val EXCEPT
                      !.again = validate_target_url(norm_val.first.value, norm_out, <<>>, DnsBase)]
    /\ UNCHANGED <<norm_in, norm_out, notNorm>>

NextNorm == NormalizeAllowedDomains \/ NormalizeAgain \/ ValidateUrl \/ ValidateAgain

(***************************************************************************)
(* web_fetch: the size-limited read of the response body                   *)
(***************************************************************************)
\* Bounds of the model: max_response_size, the bytes of one chunk, the chunks
\* of one body
MaxResponseSize == 2
MaxChunkLen == 2
MaxChunks == 3

\* The chunks a body stream yields: byte strings, the empty one included
Bytes == {"a", "b"}
Chunks == ListsUpTo(Bytes, MaxChunkLen)

\* The concatenation of a list of chunks
RECURSIVE Concat(_)
Concat(chunks) == IF chunks = <<>> THEN <<>> ELSE Head(chunks) \o Concat(Tail(chunks))

\* usize::saturating_add(1) below usize::MAX
hard_cap_of(max_response_size) == max_response_size + 1

\* Variant of append_chunk_with_cap that appends the whole chunk when the
\* chunk is longer than the room left
append_chunk_with_cap_whole(buffer, chunk, hard_cap) ==
    IF Len(buffer) >= hard_cap THEN [buffer |-> buffer, ret |-> TRUE]
    ELSE LET remaining == hard_cap - Len(buffer)
         IN IF Len(chunk) > remaining
            THEN [buffer |-> buffer \o chunk, ret |-> TRUE]
            ELSE [buffer |-> buffer \o chunk, ret |-> Len(buffer \o chunk) >= hard_cap]

\* append_chunk_with_cap: the buffer after the call and the returned bool
append_chunk_with_cap(buffer, chunk, hard_cap) ==
    IF Len(buffer) >= hard_cap THEN [buffer |-> buffer, ret |-> TRUE]
    ELSE LET remaining == hard_cap - Len(buffer)
         IN IF Len(chunk) > remaining
            THEN [buffer |-> buffer \o SubSeq(chunk, 1, remaining), ret |-> TRUE]
            ELSE [buffer |-> buffer \o chunk, ret |-> Len(buffer \o chunk) >= hard_cap]

IdleCap ==
    /\ cap_max = 0
    /\ cap_chunks = <<>>
    /\ cap_buf = <<>>
    /\ cap_stop = [ended |-> FALSE, last |-> FALSE]

\* read_response_text_limited before the loop
ReadLimited_begin ==
    /\ cap_max \in 0..MaxResponseSize
    /\ cap_chunks = <<>>
    /\ cap_buf = <<>>
    /\ cap_stop = [ended |-> FALSE, last |-> FALSE]

\* One turn of the loop: the stream yields a chunk, append_chunk_with_cap
\* takes it, and the loop breaks when it returns true
ReadChunk ==
    /\ ~cap_stop.ended
    /\ Len(cap_chunks) < MaxChunks
    /\ \E chunk \in Chunks :
          LET r == append_chunk_with_cap(cap_buf, chunk, hard_cap_of(cap_max))
          IN /\ cap_chunks' = Append(cap_chunks, chunk)
             /\ cap_buf' = r.buffer
             /\ cap_stop' = [ended |-> r.ret, last |-> r.ret]
    /\ UNCHANGED <<cap_max, notCap>>

\* The stream is at its end: the loop is over
ReadEnd ==
    /\ ~cap_stop.ended
    /\ cap_stop' = [cap_stop EXCEPT !.ended = TRUE]
    /\ UNCHANGED <<cap_max, cap_chunks, cap_buf, notCap>>

NextCap == ReadChunk \/ ReadEnd

(***************************************************************************)
(* Android bridge controller                                               *)
(***************************************************************************)
\* The threads of the host application that call into the controller
Threads == {"t1", "t2"}

\* What is known of the calls so far: a start() has returned Ok while no
\* stop() was in flight and no stop() has begun since; a stop() has returned
\* that no start() overlapped or followed; the stop() calls in flight that a
\* start() has overlapped
NoCalls == [start_ok |-> FALSE, stop_clean |-> FALSE, overlapped |-> {}]

\* The threads inside start()
InStart == {t \in Threads : br_task[t] \in {"start", "starting"}}

\* The threads inside stop()
InStop == {t \in Threads : br_task[t] = "stop"}

\* ZeroClawController::new: status Stopped, no call made
ZeroClawController_new ==
    /\ br_status = "Stopped"
    /\ br_task = [t \in Threads |-> "idle"]
    /\ br_seen = "none"
    /\ br_hist = NoCalls

IdleBr == ZeroClawController_new

\* A thread calls start()
StartCall(t) ==
    /\ br_task[t] = "idle"
    /\ br_task' = [br_task EXCEPT ![t] = "start"]
    /\ br_hist' = [br_hist EXCEPT !.stop_clean = FALSE, !.overlapped = InStop]
    /\ UNCHANGED <<br_status, br_seen, notBr>>

\* start(), first critical section: returns Ok at once when the status is
\* Running or Starting, else writes Starting and drops the lock
StartLock(t) ==
    /\ br_task[t] = "start"
    /\ IF br_status \in {"Running", "Starting"}
         THEN /\ br_task' = [br_task EXCEPT ![t] = "idle"]
              /\ br_hist' = [br_hist EXCEPT !.start_ok = (InStop = {})]
              /\ UNCHANGED br_status
         ELSE /\ br_status' = "Starting"
              /\ br_task' = [br_task EXCEPT ![t] = "starting"]
              /\ UNCHANGED br_hist
    /\ UNCHANGED <<br_seen, notBr>>

\* start(), second critical section: takes the lock again, writes Running
\* and returns Ok
StartFinish(t) ==
    /\ br_task[t] = "starting"
    /\ br_status' = "Running"
    /\ br_task' = [br_task EXCEPT ![t] = "idle"]
    /\ br_hist' = [br_hist EXCEPT !.start_ok = (InStop = {})]
    /\ UNCHANGED <<br_seen, notBr>>

\* A thread calls stop()
StopCall(t) ==
    /\ br_task[t] = "idle"
    /\ br_task' = [br_task EXCEPT ![t] = "stop"]
    /\ br_hist' = [br_hist EXCEPT !.start_ok = FALSE,
                                  !.overlapped = IF InStart = {} THEN @ \ {t} ELSE @ \cup {t}]
    /\ UNCHANGED <<br_status, br_seen, notBr>>

\* stop(): takes the lock, writes Stopped and returns Ok
Stop(t) ==
    /\ br_task[t] = "stop"
    /\ br_status' = "Stopped"
    /\ br_task' = [br_task EXCEPT ![t] = "idle"]
    /\ br_hist' = [br_hist EXCEPT !.stop_clean = (t \notin br_hist.overlapped) /\ InStart = {},
                                  !.overlapped = @ \ {t}]
    /\ UNCHANGED <<br_seen, notBr>>

\* A thread calls get_status()
GetStatusCall(t) ==
    /\ br_task[t] = "idle"
    /\ br_task' = [br_task EXCEPT ![t] = "get_status"]
    /\ UNCHANGED <<br_status, br_seen, br_hist, notBr>>

\* get_status(): takes the lock and returns a clone of the status
GetStatus(t) ==
    /\ br_task[t] = "get_status"
    /\ br_seen' = br_status
    /\ br_task' = [br_task EXCEPT ![t] = "idle"]
    /\ UNCHANGED <<br_status, br_hist, notBr>>

NextBr ==
    \E t \in Threads :
        \/ StartCall(t)
        \/ StartLock(t)
        \/ StartFinish(t)
        \/ StopCall(t)
        \/ Stop(t)
        \/ GetStatusCall(t)
        \/ GetStatus(t)

(***************************************************************************)
(* Specifications                                                          *)
(***************************************************************************)
InitLoop ==
    /\ LoopDetector_new /\ IdleMem /\ IdleReg /\ IdleWeb /\ IdleSub /\ IdleSer /\ IdlePptx
    /\ IdleGw /\ IdleKey /\ IdleHw /\ IdleDisc
    /\ IdleNorm /\ IdleCap /\ IdleBr
SpecLoop == InitLoop /\ [][NextLoop]_vars

InitMem ==
    /\ IdleMem /\ IdleLoop /\ IdleReg /\ IdleWeb /\ IdleSub /\ IdleSer /\ IdlePptx
    /\ IdleGw /\ IdleKey /\ IdleHw /\ IdleDisc
    /\ IdleNorm /\ IdleCap /\ IdleBr
SpecMem == InitMem /\ [][NextMem]_vars

InitStore ==
    /\ IdleMem /\ IdleLoop /\ IdleReg /\ IdleWeb /\ IdleSub /\ IdleSer /\ IdlePptx
    /\ IdleGw /\ IdleKey /\ IdleHw /\ IdleDisc
    /\ IdleNorm /\ IdleCap /\ IdleBr
SpecStore == InitStore /\ [][NextStore]_vars

InitReg ==
    /\ IdleReg /\ IdleLoop /\ IdleMem /\ IdleWeb /\ IdleSub /\ IdleSer /\ IdlePptx
    /\ IdleGw /\ IdleKey /\ IdleHw /\ IdleDisc
    /\ IdleNorm /\ IdleCap /\ IdleBr
SpecReg == InitReg /\ [][NextReg]_vars

InitAlias ==
    /\ IdleReg /\ IdleLoop /\ IdleMem /\ IdleWeb /\ IdleSub /\ IdleSer /\ IdlePptx
    /\ IdleGw /\ IdleKey /\ IdleHw /\ IdleDisc
    /\ IdleNorm /\ IdleCap /\ IdleBr
SpecAlias == InitAlias /\ [][NextAlias]_vars

InitGpio ==
    /\ PopulatedReg /\ IdleLoop /\ IdleMem /\ IdleWeb /\ IdleSub /\ IdleSer /\ IdlePptx
    /\ IdleGw /\ IdleKey /\ IdleHw /\ IdleDisc
    /\ IdleNorm /\ IdleCap /\ IdleBr
SpecGpio == InitGpio /\ [][NextGpio]_vars

InitWeb ==
    /\ WebFetchTool_new /\ IdleLoop /\ IdleMem /\ IdleReg /\ IdleSub /\ IdleSer /\ IdlePptx
    /\ IdleGw /\ IdleKey /\ IdleHw /\ IdleDisc
    /\ IdleNorm /\ IdleCap /\ IdleBr
SpecWeb == InitWeb /\ [][NextWeb]_vars

InitSub ==
    /\ IdleSub /\ IdleLoop /\ IdleMem /\ IdleReg /\ IdleWeb /\ IdleSer /\ IdlePptx
    /\ IdleGw /\ IdleKey /\ IdleHw /\ IdleDisc
    /\ IdleNorm /\ IdleCap /\ IdleBr
SpecSub == InitSub /\ [][NextSub]_vars

\* The host's steps are taken when they can be (the runtime polls the task
\* and the timer fires); nothing is assumed of the plugin.
FairSpecSub ==
    /\ InitSub /\ [][NextSub]_vars
    /\ WF_vars(SubWriteStdin) /\ WF_vars(SubReadLine) /\ WF_vars(SubDeadline)
    /\ WF_vars(SubReap) /\ WF_vars(SubWaitDone) /\ WF_vars(SubCollect)

InitTools ==
    /\ IdleSer /\ IdlePptx /\ IdleLoop /\ IdleMem /\ IdleReg /\ IdleWeb /\ IdleSub
    /\ IdleGw /\ IdleKey /\ IdleHw /\ IdleDisc
    /\ IdleNorm /\ IdleCap /\ IdleBr
SpecTools == InitTools /\ [][NextTools]_vars

InitSerTwo ==
    /\ IdleSerTwo /\ IdlePptx /\ IdleLoop /\ IdleMem /\ IdleReg /\ IdleWeb /\ IdleSub
    /\ IdleGw /\ IdleKey /\ IdleHw /\ IdleDisc
    /\ IdleNorm /\ IdleCap /\ IdleBr
SpecSerTwo == InitSerTwo /\ [][NextSer]_vars


InitGw ==
    /\ AppState_new /\ IdleLoop /\ IdleMem /\ IdleReg /\ IdleWeb /\ IdleSub /\ IdleSer
    /\ IdlePptx /\ IdleKey /\ IdleHw /\ IdleDisc
    /\ IdleNorm /\ IdleCap /\ IdleBr
SpecGw == InitGw /\ [][NextGw]_vars

InitChat ==
    /\ AppState_new /\ IdleLoop /\ IdleMem /\ IdleReg /\ IdleWeb /\ IdleSub /\ IdleSer
    /\ IdlePptx /\ IdleKey /\ IdleHw /\ IdleDisc
    /\ IdleNorm /\ IdleCap /\ IdleBr
SpecChat == InitChat /\ [][NextChat]_vars

InitKey ==
    /\ WebFetchTool_keys /\ IdleLoop /\ IdleMem /\ IdleReg /\ IdleWeb /\ IdleSub /\ IdleSer
    /\ IdlePptx /\ IdleGw /\ IdleHw /\ IdleDisc
    /\ IdleNorm /\ IdleCap /\ IdleBr
SpecKey == InitKey /\ [][NextKey]_vars

InitHw ==
    /\ AgentTools_new /\ IdleLoop /\ IdleMem /\ IdleReg /\ IdleWeb /\ IdleSub /\ IdleSer
    /\ IdlePptx /\ IdleGw /\ IdleKey /\ IdleDisc
    /\ IdleNorm /\ IdleCap /\ IdleBr
SpecHw == InitHw /\ [][NextHw]_vars


InitDisc ==
    /\ DeviceRegistry_discover /\ IdleLoop /\ IdleMem /\ IdleReg /\ IdleWeb /\ IdleSub
    /\ IdleSer /\ IdlePptx /\ IdleGw /\ IdleKey /\ IdleHw
    /\ IdleNorm /\ IdleCap /\ IdleBr
SpecDisc == InitDisc /\ [][NextDisc]_vars

InitNorm ==
    /\ WebFetchTool_domains /\ IdleLoop /\ IdleMem /\ IdleReg /\ IdleWeb /\ IdleSub /\ IdleSer
    /\ IdlePptx /\ IdleGw /\ IdleKey /\ IdleHw /\ IdleDisc /\ IdleCap /\ IdleBr
SpecNorm == InitNorm /\ [][NextNorm]_vars

InitCap ==
    /\ ReadLimited_begin /\ IdleLoop /\ IdleMem /\ IdleReg /\ IdleWeb /\ IdleSub /\ IdleSer
    /\ IdlePptx /\ IdleGw /\ IdleKey /\ IdleHw /\ IdleDisc /\ IdleNorm /\ IdleBr
SpecCap == InitCap /\ [][NextCap]_vars

InitBr ==
    /\ ZeroClawController_new /\ IdleLoop /\ IdleMem /\ IdleReg /\ IdleWeb /\ IdleSub /\ IdleSer
    /\ IdlePptx /\ IdleGw /\ IdleKey /\ IdleHw /\ IdleDisc /\ IdleNorm /\ IdleCap
SpecBr == InitBr /\ [][NextBr]_vars


(***************************************************************************)
(* Claims                                                                  *)
(***************************************************************************)
\* ---- claims about the loop detector ----

WarningIndexes == { i \in DOMAIN verdicts : verdicts[i].kind = "InjectWarning" }

\* C1: over any sequence of record_call and check operations, check() returns
\* InjectWarning at most once, and every HardStop is returned by a check()
\* that comes after the check() that returned InjectWarning.
C1_AtMostOneWarning ==
    /\ Cardinality(WarningIndexes) <= 1
    /\ \A i \in DOMAIN verdicts :
          verdicts[i].kind = "HardStop" => \E j \in WarningIndexes : j < i

\* A warning has been returned, and a later check() returned HardStop.
C1_Witness ==
    /\ Len(verdicts) = 2
    /\ verdicts[1].kind = "InjectWarning"
    /\ verdicts[2].kind = "HardStop"

\* All records of the history are the same successful call.
IdenticalCalls(n) ==
    /\ Len(history) = n
    /\ \A i \in 1..n : history[i] = history[1] /\ history[i].success

FiredBefore == \E i \in DOMAIN verdicts : verdicts[i].kind # "Continue"

\* C2: a check() returns Continue when no strategy fires; the first check()
\* at which a strategy fires sets the latch and returns InjectWarning with the
\* formatted reason; every later check() at which a strategy fires returns
\* HardStop with the reason. Under the default thresholds the check() after
\* the third identical call returns InjectWarning containing "no progress",
\* and the check() after the fourth returns HardStop containing "no progress".
C2_VerdictPolicy ==
    [][ Len(verdicts') = Len(verdicts) + 1 =>
        LET v == verdicts'[Len(verdicts')]
            R == Reasons(config, history, consecutive_failures)
        IN /\ (R = {} => v = Continue /\ warning_injected' = warning_injected)
           /\ (R # {} /\ ~FiredBefore =>
                  /\ v.kind = "InjectWarning"
                  /\ \E r \in R : v.text = format_warning(r)
                  /\ warning_injected')
           /\ (R # {} /\ FiredBefore =>
                  /\ v.kind = "HardStop"
                  /\ v.text \in R)
           /\ (config = DefaultConfig /\ IdenticalCalls(3) /\ ~FiredBefore =>
                  /\ v.kind = "InjectWarning"
                  /\ Contains(v.text, "no progress"))
           /\ (config = DefaultConfig /\ IdenticalCalls(4) /\ FiredBefore =>
                  /\ v.kind = "HardStop"
                  /\ Contains(v.text, "no progress"))
      ]_vars

\* Default thresholds, four identical calls, a check() after the third and a
\* check() after the fourth: InjectWarning, then HardStop, both "no progress".
C2_Witness ==
    /\ config = DefaultConfig
    /\ IdenticalCalls(4)
    /\ Len(verdicts) = 2
    /\ verdicts[1].kind = "InjectWarning"
    /\ Contains(verdicts[1].text, "no progress")
    /\ verdicts[2].kind = "HardStop"
    /\ Contains(verdicts[2].text, "no progress")

\* ---- claims about the hybrid memory ----

EntryKeys(es) == { es[i].key : i \in 1..Len(es) }

\* The step in which a recall() that went through the semantic candidates or
\* the fallback returns.
RecallReturns == rpc # "idle" /\ rpc' = "idle"

\* C3 (as stated): every entry a recall() returns has its key in the
\* authoritative store at the moment the recall() returns, whatever store and
\* forget calls ran meanwhile.
C3_ReturnedKeysPresent ==
    [][ RecallReturns /\ mresult'.ok =>
            \A k \in EntryKeys(mresult'.entries) : sqlite'[k].present ]_vars

\* C3 (amended): every entry a recall() returns was loaded from the
\* authoritative store during that recall(): a row joins the result only in a
\* step in which the authoritative store holds its key, the returned list
\* consists of rows joined earlier and rows the store holds in the returning
\* step, and a candidate whose key the authoritative store does not hold when
\* it is looked up is never returned.
C3_LoadedFromStore ==
    [][ /\ \A i \in (Len(merged) + 1)..Len(merged') : sqlite[merged'[i].key].present
        /\ (RecallReturns /\ mresult'.ok =>
              \A i \in 1..Len(mresult'.entries) :
                 \/ i <= Len(merged) /\ mresult'.entries[i] = merged[i]
                 \/ sqlite[mresult'.entries[i].key].present)
      ]_vars

\* A recall() returned joined rows although the semantic index had offered a
\* key that it looked up and left out and that the authoritative store does
\* not hold.
C3_Witness ==
    /\ rpc = "idle"
    /\ mresult.ok
    /\ mresult.entries # <<>>
    /\ EntryKeys(mresult.entries) \subseteq seen_keys
    /\ \E k \in seen_keys : ~sqlite[k].present /\ k \notin EntryKeys(mresult.entries)

HoldsLock(p) == rw.writer = p \/ p \in rw.readers

\* C4: no transport call (send or ping handshake) is in flight for a task
\* that holds the device-registry lock, for reading or for writing.
C4_NoTransportCallUnderLock ==
    \A c \in io : ~HoldsLock(c.proc)

\* Domain d covers the name: the same labels, or the name is a subdomain
\* (d's labels are a proper suffix of the name's labels).
DomainCovers(d, name) ==
    \/ d = name
    \/ /\ Len(d) < Len(name)
       /\ SubSeq(name, Len(name) - Len(d) + 1, Len(name)) = d

Listed(list, name) == \E i \in DOMAIN list : DomainCovers(list[i], name)

\* What the URL and the configuration are, stated on the URL's parts: http or
\* https, no userinfo, no IPv6 literal, a host that is not local/private, not
\* covered by blocked_domains, covered by a non-empty allowed_domains (or
\* admitted by `*`), resolving to a non-empty set of global addresses.
PartsValid(cfg, u) ==
    /\ u.pad \notin {"empty", "absent"}
    /\ u.scheme \in {"http", "https"}
    /\ ~u.userinfo
    /\ u.host.class # "ipv6_literal"
    /\ u.host.class \notin {"local", "private_ip"}
    /\ ~Listed(cfg.blocked, u.host.name)
    /\ cfg.allowed # <<>>
    /\ (Listed(cfg.allowed, u.host.name) \/ \E i \in DOMAIN cfg.allowed : cfg.allowed[i] = <<"*">>)
    /\ cfg.dns[u.host.name] # {}
    /\ \A ip \in cfg.dns[u.host.name] : ip.global

\* The step is a redirect answer handled by the redirect policy
RedirectStep == web_pc = "sent" /\ web_prev' = web_prev + 1

C6_AcceptsOnlyWhitespaceFree ==
    web_checked.res.ok =>
        /\ web_checked.url.pad = "none"
        /\ PartsValid(web_cfg, web_checked.url)

\* C6 (amended): validate_target_url accepts a URL only if the URL with its
\* surrounding whitespace trimmed is non-empty and free of whitespace, and it
\* is valid on all counts; what it returns is the trimmed URL. A host covered
\* by blocked_domains is rejected although allowed_domains admits it, and `*`
\* admits no local/private host.
C6_AcceptsOnlyValid ==
    /\ web_checked.res.ok =>
          /\ web_checked.url.pad \in {"none", "outer"}
          /\ PartsValid(web_cfg, web_checked.url)
          /\ web_checked.res.value = UrlString([web_checked.url EXCEPT !.pad = "none"])
    /\ (web_checked.url # NoUrl /\ Listed(web_cfg.blocked, web_checked.url.host.name)
           => ~web_checked.res.ok)
    /\ (web_checked.url # NoUrl /\ web_checked.url.host.class \in {"local", "private_ip"}
           => ~web_checked.res.ok)

\* A URL with surrounding whitespace, an upper-case host and a port was
\* accepted under a blocklist that does not cover it.
C6_Witness ==
    /\ web_checked.res.ok
    /\ web_checked.url.pad = "outer"
    /\ web_checked.url.host = DocsExampleCom
    /\ web_cfg.blocked # <<>>

\* ---- claims about the subprocess plugin tool ----

\* s holds the tokens of inf next to each other, in order
HasInfix(s, inf) ==
    \E i \in 0..(Len(s) - Len(inf)) : SubSeq(s, i + 1, i + Len(inf)) = inf

\* C7: every call of execute eventually returns, whatever the plugin does.
C7_ExecuteReturns == (sub_pc # "idle") ~> (sub_pc = "idle")

\* The read deadline elapses: the read was pending with no line written and
\* the child running, and execute leaves read_line
DeadlineElapses ==
    /\ sub_pc = "reading" /\ sub_pc' # "reading"
    /\ sub_stdout = NoLine /\ sub_child.state = "running"

\* execute returns
SubReturns == sub_pc # "idle" /\ sub_pc' = "idle"

\* C8: when the read deadline elapses before the plugin has written a
\* stdout line, execute kills the child, and when it returns from there the
\* child has been killed and reaped and the value is success=false with an
\* error that holds "timed out after 10s", followed by the captured stderr
\* when there is any.
C8_TimeoutKillsAndReaps ==
    [][ /\ (DeadlineElapses =>
              /\ sub_child'.kill_called /\ sub_child'.state # "running"
              /\ sub_local'.branch = "timeout" /\ sub_pc' # "idle")
        /\ (SubReturns /\ sub_local.branch = "timeout" =>
              /\ sub_child'.kill_called /\ sub_child'.state = "reaped"
              /\ sub_ret'.kind = "ToolResult" /\ ~sub_ret'.success
              /\ sub_ret'.output = <<>>
              /\ HasInfix(sub_ret'.error.text, <<"timed out after", "10", "s">>)
              /\ (sub_stderr # <<>> =>
                    EndsWith(sub_ret'.error.text, <<"; stderr:">> \o sub_stderr))
              /\ (sub_stderr = <<>> =>
                    EndsWith(sub_ret'.error.text, <<"timed out after", "10", "s">>)))
      ]_vars

\* execute returned from the deadline branch of a plugin that wrote to
\* stderr and no line to stdout
C8_Witness ==
    /\ sub_pc = "idle"
    /\ sub_local.branch = "timeout"
    /\ sub_stdout = NoLine
    /\ sub_stderr # <<>>
    /\ sub_child.state = "reaped" /\ sub_child.kill_called
    /\ sub_ret.kind = "ToolResult" /\ ~sub_ret.success

\* execute has returned a ToolResult with success=true
ReturnedSuccess == sub_pc = "idle" /\ sub_ret.kind = "ToolResult" /\ sub_ret.success

\* The plugin's first stdout line, trimmed, is a ToolResult with success=true
WroteSuccessLine == sub_stdout.body = "result" /\ sub_stdout.success

C10_ToolsNeverReturnErr ==
    /\ ser_ret.kind # "Err"
    /\ pptx_ret.kind # "Err"
    /\ web_ret.kind # "Err"
    /\ sub_ret.kind # "Err"


\* ---- claims about the shape of ToolResult ----

\* A ToolResult keeps the invariant: no error on success; on failure a
\* non-empty cause and an empty output
WellFormed(r) ==
    r.kind = "ToolResult" =>
        /\ (r.success => ~r.error.some)
        /\ (~r.success => r.error.some /\ r.error.text # <<>> /\ r.output = <<>>)

\* C11: every ToolResult a tool returns has no error on success and, on
\* failure, a non-empty cause and an empty output.
C11_ToolResultsWellFormed ==
    /\ WellFormed(ser_ret)
    /\ WellFormed(sub_ret)
    /\ WellFormed(pptx_ret)
    /\ WellFormed(web_ret)
    /\ WellFormed(ret)

\* ---- claims about the three strategies of the loop detector ----

\* Records r and s agree on (tool, args_sig, result_hash)
SameCall(r, s) ==
    /\ r.tool_name = s.tool_name
    /\ r.args_sig = s.args_sig
    /\ r.result_hash = s.result_hash

\* Length of the suffix of h whose records agree with the last one: the
\* number of k for which the last k records all agree with it
SuffixStreak(h) ==
    Cardinality({ k \in 1..Len(h) :
                    \A i \in (Len(h) - k + 1)..Len(h) : SameCall(h[i], h[Len(h)]) })

\* The no-progress strategy is due
NoProgressDue ==
    /\ config.no_progress_threshold > 0
    /\ history # <<>>
    /\ SuffixStreak(history) >= config.no_progress_threshold

\* The step is a check(), a record_call
IsCheck == Len(verdicts') = Len(verdicts) + 1
IsRecord == Len(history') = Len(history) + 1

\* The verdict's text is that of the no-progress strategy
NoProgressText(v) ==
    Contains(v.text, "times with identical arguments and identical results")

\* The strategy fires exactly when it is due, as a function and in the
\* verdict of every check()
NoProgressFiresWhenDue ==
    /\ [](check_no_progress_repeat(config, history) # NoReason <=> NoProgressDue)
    /\ [][ IsCheck =>
            LET v == verdicts'[Len(verdicts')]
            IN /\ NoProgressDue => v.kind # "Continue" /\ NoProgressText(v)
               /\ NoProgressText(v) => NoProgressDue ]_vars

\* The recorded call repeats the tool and the arguments of the record before it
RepeatsLastInput ==
    /\ IsRecord /\ history # <<>>
    /\ history'[Len(history')].tool_name = history[Len(history)].tool_name
    /\ history'[Len(history')].args_sig = history[Len(history)].args_sig

\* C12 (as stated): the no-progress strategy fires exactly when the
\* threshold is positive and the suffix of records equal to the last one on
\* (tool, args_sig, result_hash) is at least as long as the threshold, never
\* with threshold 0; and a call with the same tool and arguments but a
\* different output breaks the streak.
C12_DifferentOutputBreaksStreak ==
    /\ NoProgressFiresWhenDue
    /\ [][ RepeatsLastInput /\ last_outputs'[2] # last_outputs[2] =>
             SuffixStreak(history') = 1 ]_vars

\* C12 (amended): as above, but the streak is broken by a call with the
\* same tool and arguments whose output differs within its first
\* OUTPUT_HASH_PREFIX_BYTES bytes.
C12_DifferentPrefixBreaksStreak ==
    /\ NoProgressFiresWhenDue
    /\ [][ RepeatsLastInput /\ last_outputs'[2].head # last_outputs[2].head =>
             SuffixStreak(history') = 1 ]_vars

\* check() fired the no-progress strategy on a streak of exactly the
\* threshold that started after a call with the same input and another output
C12_Witness ==
    /\ verdicts # <<>>
    /\ NoProgressText(verdicts[Len(verdicts)])
    /\ SuffixStreak(history) = config.no_progress_threshold
    /\ Len(history) > SuffixStreak(history)
    /\ LET before == history[Len(history) - SuffixStreak(history)]
       IN /\ before.tool_name = history[Len(history)].tool_name
          /\ before.args_sig = history[Len(history)].args_sig

\* ---- C13 ----------------------------------------------------------------

\* r and s are the same tool called with the same arguments
SameInput(r, s) == r.tool_name = s.tool_name /\ r.args_sig = s.args_sig

\* The condition under which the ping-pong strategy is due, stated over the
\* history alone: A is the penultimate record, B the last one.
PingPongDue ==
    LET cycles == config.ping_pong_cycles
        len == Len(history)
    IN /\ cycles > 0
       /\ len >= 4
       /\ len >= 2 * cycles
       /\ ~SameInput(history[len - 1], history[len])
       /\ \A j \in 0..(2 * cycles - 1) :
             SameCall(history[len - j],
                      IF j % 2 = 0 THEN history[len] ELSE history[len - 1])

PingPongText(v) == Contains(v.text, "alternating")

\* The strategy fires exactly when it is due, and check() reports a ping-pong
\* only when it is due.
PingPongFiresWhenDue ==
    /\ [](check_ping_pong(config, history) # NoReason <=> PingPongDue)
    /\ [][ IsCheck =>
            LET v == verdicts'[Len(verdicts')]
            IN /\ PingPongText(v) => PingPongDue
               /\ PingPongDue /\ ~NoProgressDue =>
                     v.kind # "Continue" /\ PingPongText(v) ]_vars

\* The last four records of h alternate A,B,A,B on (tool, args)
AlternatesABAB(h) ==
    /\ Len(h) >= 4
    /\ SameInput(h[Len(h) - 3], h[Len(h) - 1])
    /\ SameInput(h[Len(h) - 2], h[Len(h)])
    /\ ~SameInput(h[Len(h) - 1], h[Len(h)])

\* A call is recorded that completes an alternation A,B,A,B
CompletesABAB == IsRecord /\ AlternatesABAB(history')

\* C13 as stated: the ping-pong strategy fires exactly when ping_pong_cycles
\* > 0, the history has at least max(4, 2*cycles) records, the last two
\* records A, B differ on (tool, args), and the last 2*cycles records
\* alternate A,B on (tool, args, result_hash); an alternation A,B,A,B whose two
\* occurrences of B produced different outputs yields Continue (read in the
\* statement's favour: default thresholds, no failure streak).
C13_DifferentOutputYieldsContinue ==
    /\ PingPongFiresWhenDue
    /\ [][ /\ CompletesABAB
           /\ last_outputs'[2] # last_outputs[1]
           /\ config = DefaultConfig
           /\ check_failure_streak(config, consecutive_failures') = {}
           => Reasons(config, history', consecutive_failures') = {} ]_vars

\* C13, amended: the strategy fires exactly when due; an alternation A,B,A,B
\* whose two occurrences of A (or of B) have different result hashes, as when
\* the outputs differ within the hashed prefix, does not fire the ping-pong
\* strategy when ping_pong_cycles >= 2, and check() yields Continue when no
\* other strategy fires.
C13_DifferentHashYieldsContinue ==
    /\ PingPongFiresWhenDue
    /\ [][ /\ CompletesABAB
           /\ last_outputs'[2].head # last_outputs[1].head
           /\ config.ping_pong_cycles >= 2
           => check_ping_pong(config, history') = NoReason ]_vars
    /\ []( /\ AlternatesABAB(history)
           /\ config.ping_pong_cycles >= 2
           /\ \/ history[Len(history) - 3].result_hash # history[Len(history) - 1].result_hash
              \/ history[Len(history) - 2].result_hash # history[Len(history)].result_hash
           => check_ping_pong(config, history) = NoReason )
    /\ [][ /\ IsCheck
           /\ AlternatesABAB(history)
           /\ config.ping_pong_cycles >= 2
           /\ \/ history[Len(history) - 3].result_hash # history[Len(history) - 1].result_hash
              \/ history[Len(history) - 2].result_hash # history[Len(history)].result_hash
           /\ ~NoProgressDue
           /\ check_failure_streak(config, consecutive_failures) = {}
           => verdicts'[Len(verdicts')] = Continue ]_vars

\* A ping-pong over two full cycles has been reported, and an alternation with
\* a changed output of B has passed a check with Continue
C13_Witness ==
    /\ verdicts # <<>>
    /\ config.ping_pong_cycles = 2
    /\ \/ /\ PingPongText(verdicts[Len(verdicts)])
          /\ PingPongDue
       \/ /\ verdicts[Len(verdicts)] = Continue
          /\ AlternatesABAB(history)
          /\ history[Len(history) - 2].result_hash # history[Len(history)].result_hash

\* ---- C14 ----------------------------------------------------------------

\* Index of the most recent successful call of tool t in h (0 when none)
LastSuccess(h, t) ==
    LET S == { i \in 1..Len(h) : h[i].tool_name = t /\ h[i].success }
    IN IF S = {} THEN 0 ELSE CHOOSE i \in S : \A j \in S : j <= i

\* Number of failed calls of t since its most recent success (or since the
\* detector was created), counted over the history
FailuresSinceSuccess(h, t) ==
    Cardinality({ i \in (LastSuccess(h, t) + 1)..Len(h) :
                     h[i].tool_name = t /\ ~h[i].success })

FailureStreakDue ==
    /\ config.failure_streak_threshold > 0
    /\ \E t \in ToolNames :
          FailuresSinceSuccess(history, t) >= config.failure_streak_threshold

FailureStreakText(v) == Contains(v.text, "failed")

\* C14: the failure counter of a tool is the number of its failed calls since
\* its most recent success (or since creation); a success of the tool clears
\* it and calls of other tools leave it alone; the failure-streak strategy
\* fires exactly when its threshold is positive and some counter has reached
\* it.
C14_FailureCounter ==
    /\ [](\A t \in ToolNames :
             consecutive_failures[t] = FailuresSinceSuccess(history, t))
    /\ [][ IsRecord =>
            LET r == history'[Len(history')]
            IN /\ r.success => consecutive_failures'[r.tool_name] = 0
               /\ ~r.success => consecutive_failures'[r.tool_name] =
                                   consecutive_failures[r.tool_name] + 1
               /\ \A t \in ToolNames \ {r.tool_name} :
                     consecutive_failures'[t] = consecutive_failures[t] ]_vars
    /\ [](check_failure_streak(config, consecutive_failures) # {} <=> FailureStreakDue)
    /\ [][ IsCheck =>
            LET v == verdicts'[Len(verdicts')]
            IN /\ FailureStreakText(v) => FailureStreakDue
               /\ FailureStreakDue /\ ~NoProgressDue /\ ~PingPongDue =>
                     v.kind # "Continue" /\ FailureStreakText(v) ]_vars

\* A failure streak has been reported, and afterwards a success of a tool
\* cleared its counter before the tool failed again
C14_Witness ==
    /\ \E k \in 1..Len(verdicts) : FailureStreakText(verdicts[k])
    /\ \E t \in ToolNames :
          /\ LastSuccess(history, t) > 1
          /\ consecutive_failures[t] >= 1
          /\ \E i \in 1..(LastSuccess(history, t) - 1) :
                history[i].tool_name = t /\ ~history[i].success

\* ---- claims about the device registry ----

\* The aliases of devs whose board name has the prefix pre
AliasesOf(devs, pre) ==
    { a \in DOMAIN devs : alias_prefix(devs[a].device.board_name) = pre }

Prefixes == { alias_prefix(b) : b \in BoardNames }

\* register has returned in this step (the only registry operation whose Ok
\* carries a value)
IsRegister ==
    \E p \in AdminTasks :
        /\ pc[p] = "write_locked" /\ pc'[p] = "idle"
        /\ ret'.kind = "Ok" /\ ret'.output # <<>>

\* C15: register returns alias_prefix(board_name) followed by a counter; the
\* n-th registration (n from 0) under a prefix returns prefix+n, whatever was
\* registered under other prefixes; the aliases of a registry are pairwise
\* distinct; an alias once returned denotes the same device (same board name)
\* from then on: no operation removes or reassigns it.
C15_AliasesSequentialAndStable ==
    /\ [](\A pre \in Prefixes :
             AliasesOf(devices, pre) =
                { Alias(pre, n) : n \in 0..(Cardinality(AliasesOf(devices, pre)) - 1) })
    /\ [](\A a \in DOMAIN devices : devices[a].device.alias = a)
    /\ [][ IsRegister =>
            /\ ret'.kind = "Ok"
            /\ ret'.output \notin DOMAIN devices
            /\ DOMAIN devices' = DOMAIN devices \cup {ret'.output}
            /\ LET pre == alias_prefix(devices'[ret'.output].device.board_name)
               IN ret'.output = Alias(pre, Cardinality(AliasesOf(devices, pre))) ]_vars
    /\ [][ \A a \in DOMAIN devices :
              /\ a \in DOMAIN devices'
              /\ devices'[a].device.board_name = devices[a].device.board_name
              /\ devices'[a].device.alias = a ]_vars

\* Two boards have been registered under one prefix, the second after the
\* first has been reconnected on another port
C15_Witness ==
    /\ DOMAIN devices = { <<"pico", "0">>, <<"rpi", "0">>, <<"pico", "1">> }
    /\ ret = RegOk(<<"pico", "1">>)
    /\ devices[<<"pico", "0">>].device.device_path = RebootPath

\* ---- C16 ----------------------------------------------------------------

\* The alias has an entry with a transport attached
HasTransport(a) == a \in DOMAIN devices /\ devices[a].transport # NoTransport

\* The candidates of the auto-selection
GpioCapable == { a \in DOMAIN devices : HasTransport(a) /\ devices[a].capabilities.gpio }

\* The values of the "device" argument
DeviceArgs == { a.device : a \in GpioArgs }

\* What C16 says of one result of resolve_gpio_device for the argument d
ResolvesAsStated(d, res) ==
    /\ d.t = "string" =>
          /\ res.ok <=> (HasTransport(d.s) /\ devices[d.s].capabilities.gpio)
          /\ res.ok => res.alias = d.s
    /\ d.t # "string" =>
          /\ res.ok <=> Cardinality(GpioCapable) = 1
          /\ res.ok => GpioCapable = {res.alias}
          /\ Cardinality(GpioCapable) > 1 =>
                \A a \in GpioCapable : HasInfix(res.msg, a)
    /\ res.ok =>
          /\ HasTransport(res.alias)
          /\ devices[res.alias].capabilities.gpio
          /\ context(devices, res.alias) = Some(<<res.alias>>)
    /\ ~res.ok => res.msg # <<>>

\* The tool task leaves the resolution under the read guard in this step
IsResolve(p) == pc[p] = "read_locked" /\ pc'[p] # "read_locked"

\* C16: resolve_gpio_device uses args.device when given and otherwise the
\* unique GPIO-capable alias; it fails for zero candidates, for several (the
\* error lists them all), for an unknown alias, for a device without
\* transport and for one without the gpio capability; it returns Ok only for
\* a registered alias with a transport and gpio = true; it never modifies the
\* registry.
C16_ResolveGpioDevice ==
    /\ [](\A d \in DeviceArgs : \A res \in resolve_gpio_device(devices, d) :
             ResolvesAsStated(d, res))
    /\ [][ \A p \in ToolTasks : IsResolve(p) =>
            /\ devices' = devices
            /\ alias_counters' = alias_counters
            /\ pc'[p] = "resolved" =>
                  /\ HasTransport(task'[p].alias)
                  /\ devices[task'[p].alias].capabilities.gpio
                  /\ task'[p].transport = devices[task'[p].alias].transport
                  /\ task[p].device.t = "string" => task'[p].alias = task[p].device.s
                  /\ task[p].device.t # "string" => GpioCapable = {task'[p].alias}
            /\ pc'[p] # "resolved" =>
                  /\ ret'.kind = "ToolResult" /\ ~ret'.success
                  /\ \/ task[p].device.t = "string" /\ ~(HasTransport(task[p].device.s)
                                                          /\ devices[task[p].device.s].capabilities.gpio)
                     \/ task[p].device.t # "string" /\ Cardinality(GpioCapable) # 1 ]_vars

\* A call without "device" has been refused over two GPIO-capable devices,
\* both named in the error
C16_Witness ==
    /\ Cardinality(GpioCapable) = 2
    /\ ret.kind = "ToolResult" /\ ~ret.success
    /\ StartsWith(ret.error.text, <<"multiple devices available (">>)
    /\ \A a \in GpioCapable : HasInfix(ret.error.text, a)

\* ---- C17 ----------------------------------------------------------------

\* reconnect passes its checks in this step and starts the ping handshake
ReconnectStarts(p) == pc[p] = "write_locked" /\ pc'[p] = "pinging"

\* reconnect returns from the ping handshake in this step
ReconnectEnds(p) == pc[p] = "pinging" /\ pc'[p] = "idle"

\* an operation returns at once with the given error text in front
ReturnsErr(p, text) ==
    /\ pc[p] = "write_locked" /\ pc'[p] = "idle"
    /\ ret'.kind = "Err" /\ StartsWith(ret'.error.text, text)

\* C17: reconnect returns Err for an unknown alias and for a device with no
\* known port path; otherwise it drops the old transport, builds a fresh
\* serial transport on the chosen path and runs the ping handshake; only when
\* the handshake succeeds does it attach the new transport and refresh the
\* capabilities; when it fails, reconnect returns Err and the entry is left
\* with no transport.
C17_Reconnect ==
    /\ [][ \A p \in AdminTasks :
            /\ ReconnectStarts(p) =>
                  LET a == task'[p].alias
                  IN /\ a \in DOMAIN devices
                     /\ devices'[a].transport = NoTransport
                     /\ devices'[a].device.device_path # NoPath
                     /\ task'[p].transport = SerialTransport(devices'[a].device.device_path)
                     /\ \/ devices'[a].device.device_path = devices[a].device.device_path
                        \/ devices'[a].device.device_path = RebootPath
                     /\ \E c \in io' \ io : c.call = "ping_handshake"
                                            /\ c.transport = task'[p].transport
                     /\ devices'[a].capabilities = devices[a].capabilities
                     /\ \A b \in DOMAIN devices \ {a} : devices'[b] = devices[b]
            /\ ReturnsErr(p, <<"unknown device alias:">>) =>
                  /\ SubSeq(ret'.error.text, 2, 3) \notin DOMAIN devices
                  /\ devices' = devices
            /\ ReturnsErr(p, <<"device">>) =>
                  /\ SubSeq(ret'.error.text, 2, 3) \in DOMAIN devices
                  /\ devices[SubSeq(ret'.error.text, 2, 3)].device.device_path = NoPath
                  /\ devices' = devices
            /\ ReconnectEnds(p) =>
                  LET a == task[p].alias
                  IN /\ ret'.kind \in {"Ok", "Err"}
                     /\ ret'.kind = "Ok" =>
                           /\ devices'[a].transport = task[p].transport
                           /\ devices'[a].capabilities.gpio
                     /\ ret'.kind = "Err" =>
                           /\ devices'[a].transport = NoTransport
                           /\ devices' = devices
                     /\ \A b \in DOMAIN devices \ {a} : devices'[b] = devices[b] ]_vars
    /\ [](\A p \in AdminTasks :
             pc[p] = "pinging" => devices[task[p].alias].transport = NoTransport)

\* A reconnect on the new port has failed its handshake: the device that had
\* a transport and gpio is left without transport
C17_Witness ==
    /\ ret.kind = "Err"
    /\ StartsWith(ret.error.text, <<"ping handshake failed after reconnect on">>)
    /\ \E a \in DOMAIN devices :
          /\ devices[a].transport = NoTransport
          /\ devices[a].capabilities.gpio
          /\ devices[a].device.device_path = RebootPath

\* ---- claims about the serial transport ----

\* The requests of board b that are between the start of their write and the
\* end of their read or drain
InFlight(b) ==
    { h \in DOMAIN ser_pc : h[1] = b /\ ser_pc[h] \in {"write", "read", "drain"} }

\* C18: on one serial transport at most one request is between the start of
\* its write and the end of its read or post-timeout drain, whatever the
\* interleaving of the callers, and no command is written while another
\* request of that transport awaits its response; requests on two different
\* transports may overlap.
C18_RequestsSerialized ==
    /\ [](\A b \in DOMAIN ser_port :
             /\ Cardinality(InFlight(b)) <= 1
             /\ InFlight(b) = {} <=> ser_port[b].holder = NoHolder
             /\ \A h \in InFlight(b) : ser_port[b].holder = h)
    /\ [][ \A b \in DOMAIN ser_port :
              Len(ser_port'[b].tx) > Len(ser_port[b].tx) =>
                 \E h \in DOMAIN ser_pc :
                    /\ InFlight(b) = {h}
                    /\ ser_pc[h] = "write" /\ ser_pc'[h] = "read" ]_vars

\* A request of each board awaits its response at the same time, while the
\* other tool of the first board waits for the port
C18_Witness ==
    /\ \E h \in InFlight(FirstBoard) : ser_pc[h] = "read"
    /\ \E h \in InFlight(SecondBoard) : ser_pc[h] = "read"
    /\ \E h \in DOMAIN ser_pc : h[1] = FirstBoard /\ ser_pc[h] = "lock"

\* ---- C19 ----------------------------------------------------------------

\* request returns the timeout error in this step
ReturnsTimeout(h) ==
    /\ ser_pc[h] # "idle" /\ ser_pc'[h] = "idle"
    /\ ser_ret' = ExecErr(<<"Serial request timed out after",
                            ToString(SERIAL_TIMEOUT_SECS), "s">>)

\* request reads a response line in this step
ReadsLine(h) == ser_pc[h] = "read" /\ ser_pc'[h] = "idle"

\* The line at the head of the receive buffer answers the command of the
\* request in flight: that command is the newest on the wire, so the line is
\* its answer only if nothing else is unanswered or unread.
HeadIsOwnResponse(b) == ser_port[b].tx = <<>> /\ Len(ser_port[b].rx) = 1

\* C19: a request whose response does not arrive within the deadline returns
\* the timeout error after the drain, and every later request on the
\* transport returns the response to its own command, never a stale one.
C19_NoStaleResponse ==
    [][ \A h \in DOMAIN ser_pc :
          /\ ReturnsTimeout(h) => ser_pc[h] = "drain"
          /\ ReadsLine(h) => HeadIsOwnResponse(h[1]) ]_vars

\* ---- claims about the hybrid store ----

\* store passes its authoritative write in this step
StoreWrites == store_call = NoStore /\ store_call' # NoStore

\* store returns from its semantic write in this step
StoreReturns == store_call # NoStore /\ store_call' = NoStore

\* C20: store writes the authoritative store first. When that write fails,
\* store returns the error and the semantic index is not written; when it
\* succeeds, the semantic write is attempted and store returns Ok whether it
\* succeeds or fails, the entry being in the authoritative store (no step of
\* store takes it out again).
C20_AuthoritativeFirst ==
    /\ [][ StoreWrites =>
            /\ sqlite'[store_call'.key].present
            /\ qdrant' = qdrant ]_vars
    /\ [][ StoreReturns =>
            /\ mresult' = Ok(<<>>)
            /\ sqlite' = sqlite
            /\ qdrant' \in {qdrant, qdrant \cup {store_call.key}} ]_vars
    /\ [][ \A k \in Keys :
              k \in qdrant' /\ k \notin qdrant =>
                 store_call.state = "sync" /\ store_call.key = k ]_vars
    /\ [][ mresult' = Err /\ mresult' # mresult => sqlite' = sqlite /\ qdrant' = qdrant ]_vars
    /\ [][ store_call.state = "sync" /\ sqlite[store_call.key].present
              /\ ~sqlite'[store_call.key].present
              => store_call' = store_call ]_vars

\* A store has returned Ok after its semantic write failed: the entry is in
\* the authoritative store and not in the semantic index
C20_Witness ==
    /\ store_call = NoStore
    /\ mresult = Ok(<<>>)
    /\ \E k \in Keys : sqlite[k].present /\ k \notin qdrant
    /\ \E k \in Keys : sqlite[k].present /\ k \in qdrant

\* ---- claims about hybrid recall ----

\* recall returns from its fallback in this step
FallbackReturns == rpc = "fallback" /\ rpc' = "idle"

\* recall learns in this step that the semantic index failed or has no
\* candidate
SemanticMisses == rpc = "idle" /\ rpc' = "fallback"

\* a call returns in this step without an await behind it and without a
\* change of the stores
DirectReturn ==
    /\ rpc = "idle" /\ rpc' = "idle"
    /\ mresult' # mresult
    /\ sqlite' = sqlite /\ qdrant' = qdrant

\* C21: for a non-empty query, when the semantic index fails or has no
\* candidate, recall returns exactly what the authoritative recall returns for
\* the trimmed query, the limit and the session; an empty or whitespace-only
\* query is answered by the authoritative recall directly, the semantic index
\* not being consulted.
C21_RecallFallback ==
    /\ [](rpc # "idle" => trim(rargs.query) # "")
    /\ [][ SemanticMisses => UNCHANGED <<sqlite, qdrant, mresult>> ]_vars
    /\ [][ rpc = "fallback" => rpc' = "fallback" \/ FallbackReturns ]_vars
    /\ [][ FallbackReturns =>
            mresult' \in { Err,
                           Ok(sqlite_recall(sqlite, trim(rargs.query), rargs.limit,
                                            rargs.session)) } ]_vars
    /\ [][ DirectReturn =>
            \/ mresult' \in {Err, Ok(<<>>)}
            \/ \E a \in RecallArgs :
                  /\ trim(a.query) = ""
                  /\ mresult' = Ok(sqlite_recall(sqlite, a.query, a.limit, a.session)) ]_vars

\* The fallback has answered a query that holds a word with a row that the
\* semantic index does not know
C21_Witness ==
    /\ rpc = "idle"
    /\ mresult.ok /\ mresult.entries # <<>>
    /\ \A i \in 1..Len(mresult.entries) :
          /\ mresult.entries[i].score = NoScore
          /\ mresult.entries[i].content = "rank"
          /\ mresult.entries[i].key \notin qdrant
    /\ \E k \in Keys : sqlite[k].present /\ sqlite[k].content = "beta"

\* recall returns the rows it joined from semantic candidates in this step
SemanticReturns == rpc = "loop" /\ rpc' = "idle"

\* The authoritative row of the candidate the loop is looking at, carrying the
\* candidate's score
HeadRow == Entry(Head(cands).key, sqlite_get(sqlite, Head(cands).key), Head(cands).score)

\* The joined list grows only at its end and only by the row of the candidate
\* at hand, and what is returned is that list
JoinedInCandidateOrder ==
    /\ [][ rpc = "loop" /\ rpc' = "loop" =>
            merged' = merged \/ merged' = Append(merged, HeadRow) ]_vars
    /\ [][ SemanticReturns =>
            /\ mresult'.ok
            /\ mresult'.entries # <<>>
            /\ mresult'.entries \in {merged, Append(merged, HeadRow)} ]_vars

\* No key twice and, with a session filter, only rows of that session
DistinctAndOfSession ==
    [][ SemanticReturns =>
          LET es == mresult'.entries
          IN /\ \A i, j \in 1..Len(es) : es[i].key = es[j].key => i = j
             /\ (rargs.session # NoSession =>
                    \A i \in 1..Len(es) : es[i].session_id = rargs.session) ]_vars

\* C22: a recall answered from semantic candidates returns at most `limit`
\* entries for every limit, 0 included, no key twice, in the order of the
\* candidates, each the authoritative row with the candidate's score, and with
\* a session filter only entries of that session.
C22_AtMostLimitJoined ==
    /\ JoinedInCandidateOrder
    /\ DistinctAndOfSession
    /\ [][ SemanticReturns => Len(mresult'.entries) <= rargs.limit ]_vars

\* ---- claims about the gateway intake ----

\* The index of the subject of a messages array: its last user message
SubjectIndex(messages) ==
    CHOOSE i \in DOMAIN messages :
        /\ messages[i].role = "user"
        /\ \A j \in DOMAIN messages : messages[j].role = "user" => j <= i

\* The context lines the shim is to build for a messages array: the user and
\* assistant messages other than the subject, in their order, rendered
ContextLinesOf(messages) ==
    LET s == SubjectIndex(messages)
        others == SubSeq(messages, 1, s - 1) \o SubSeq(messages, s + 1, Len(messages))
        turns == SelectSeq(others, IsChatTurn)
    IN [ i \in DOMAIN turns |->
            [label |-> IF turns[i].role = "user" THEN "User: " ELSE "Assistant: ",
             text |-> turns[i].content] ]

\* The message the shim is to hand to the agent loop for a messages array
MessageOf(messages) ==
    LET lines == ContextLinesOf(messages)
        subject == messages[SubjectIndex(messages)].content
    IN IF lines = <<>>
       THEN [framed |-> FALSE, context |-> <<>>, current |-> subject]
       ELSE [framed |-> TRUE,
             context |-> SubSeq(lines, Max(1, Len(lines) - 9), Len(lines)),
             current |-> subject]

\* C23: the agent loop of a /v1/chat/completions request gets the content of
\* the last user message as the current message, after a context block of the
\* other user and assistant messages (at most the last ten, in their order,
\* rendered "User: .." / "Assistant: .."), the subject never being part of
\* the block, whatever message the array ends with; without context messages
\* it gets the subject verbatim.
C23_SubjectOutsideContext ==
    \A run \in gw_runs :
        gw_req[run.request].messages # <<>> =>
            run.message = MessageOf(gw_req[run.request].messages)

\* The request carries a credential the gateway is configured to accept: the
\* paired bearer token, or the configured webhook secret
ValidCredential(r) ==
    \/ gw_cfg.require_pairing /\ gw_req[r].cred = "paired_token"
    \/ gw_cfg.webhook_secret /\ gw_req[r].cred = "webhook_secret"

\* The request has caused a memory write or an agent-loop run
ReachedAgent(r) ==
    \/ gw_req[r].pc \in {"save", "run", "loop"}
    \/ gw_req[r].key # NoKey
    \/ \E run \in gw_runs : run.request = r
    \/ gw_req[r].status \in {200, 500}

\* C24: on both intake endpoints a request from a non-loopback peer reaches
\* auto-save and the agent loop only with a valid credential; every other
\* non-loopback request (that the rate limiter lets through) is answered 401
\* and causes no memory write and no agent-loop run.
C24_RemoteNeedsCredential ==
    \A r \in Requests :
        gw_req[r].peer = "remote" /\ ~ValidCredential(r) =>
            /\ ~ReachedAgent(r)
            /\ gw_req[r].status \in {401, 429}

\* The handler of r accepts its request in this step
Accepts(r) == gw_req[r].pc = "idle" /\ gw_req'[r].pc # "idle" /\ gw_req'[r].status = 0

\* The handler of r passes its auto-save block in this step
Saves(r) == gw_req[r].pc = "save" /\ gw_req'[r].pc # "save"

\* The row the auto-save of r writes
SavedRow(r) == [key |-> gw_req[r].key, content |-> gw_req[r].subject, category |-> "conversation"]

\* The rows of state.mem by key, content and category
StoredRows ==
    { [key |-> row.key, content |-> row.content, category |-> row.category] : row \in gw_mem }

\* C25: with auto-save enabled every accepted request stores its subject under
\* a fresh key api_chat_msg_<uuid>, distinct per request, in the Conversation
\* category before its agent loop starts, and a failed store neither prevents
\* nor fails the agent loop; with auto-save disabled nothing is stored.
C25_AutoSave ==
    /\ [][ \A r \in Requests :
             /\ (Accepts(r) =>
                    /\ gw_req'[r].pc = IF gw_cfg.auto_save THEN "save" ELSE "run"
                    /\ gw_req'[r].key = NoKey
                    /\ UNCHANGED <<gw_mem, gw_runs>>)
             /\ (Saves(r) =>
                    /\ gw_req'[r].pc = "run"
                    /\ gw_req'[r].status = 0
                    /\ gw_req'[r].key.prefix = "api_chat_msg_"
                    /\ \A q \in Requests : gw_req'[r].key # gw_req[q].key
                    /\ gw_mem \subseteq gw_mem'
                    /\ StoredRows' \in {StoredRows, StoredRows \cup {SavedRow(r)'}}
                    /\ UNCHANGED gw_runs)
             /\ (~Saves(r) => gw_req'[r].key = gw_req[r].key \/ gw_req[r].pc = "idle")
             /\ (gw_req[r].pc = "run" /\ gw_req'[r].pc # "run" =>
                    /\ gw_runs' = gw_runs \cup {[request |-> r, message |-> gw_req[r].enriched]}
                    /\ (gw_cfg.auto_save <=> gw_req[r].key # NoKey)
                    /\ UNCHANGED gw_mem) ]_vars
    /\ [](~gw_cfg.auto_save => gw_mem = {})
    /\ [](\A r, q \in Requests :
            r # q /\ gw_req[r].key # NoKey => gw_req[r].key # gw_req[q].key)
    /\ [](\A row \in StoredRows : \E r \in Requests : row = SavedRow(r))

\* Two requests were answered 200 with auto-save enabled; the store of one
\* failed, the other's subject is stored under its own key
C25_Witness ==
    /\ gw_cfg.auto_save
    /\ \A r \in Requests : gw_req[r].pc = "done" /\ gw_req[r].status = 200
    /\ \E r, q \in Requests :
          /\ SavedRow(r) \in StoredRows
          /\ SavedRow(q) \notin StoredRows
          /\ gw_req[q].key # NoKey
          /\ gw_req[q].key # gw_req[r].key

\* ---- claims about gpio_write ----

\* The commands task p has on a transport
SentBy(p) == { c \in io : c.proc = p }

\* The command gpio_write is to send for the call task p has in flight
WriteCommand(p) ==
    [proc |-> p, call |-> "send", transport |-> devices[task[p].alias].transport,
     cmd |-> "gpio_write", pin |-> task[p].pin, value |-> task[p].value]

\* A gpio_write of task p returns in this step
WriteReturns(p) == task[p].tool = "gpio_write" /\ pc[p] = "sending" /\ pc'[p] = "idle"

\* The result of a gpio_write for an answer of the transport is the one the
\* answer calls for
AsClaimed(t, resp) ==
    LET result == gpio_result(t, resp)
    IN /\ (resp.r = "ok" =>
              /\ result.success
              /\ \E state \in {"HIGH", "LOW"} :
                    result.output = <<"GPIO", ToString(t.pin), "set", state, "on">> \o t.alias
              /\ result.error = None)
       /\ (resp.r = "err" =>
              /\ ~result.success
              /\ result.output = <<>>
              /\ result.error = Some(<<"transport error:">> \o resp.error.text))
       /\ (resp.r = "not_ok" => ~result.success /\ result.output = <<>>)

\* C26: a gpio_write with an integer pin, a value of 0 or 1 and a device that
\* resolves sends exactly one command {cmd: "gpio_write", params: {pin,
\* value}} to that device's transport, the device argument not being part of
\* it; an ok response gives success with "GPIO <pin> set <STATE> on <alias>",
\* a transport error gives a failure with "transport error: ..."; a call with
\* a missing or invalid pin or value or without a device that resolves sends
\* nothing.
C26_GpioWrite ==
    /\ [][ \A p \in ToolTasks :
             /\ (SentBy(p)' # SentBy(p) =>
                    \/ /\ pc[p] = "resolved" /\ pc'[p] = "sending"
                       /\ SentBy(p) = {}
                       /\ task[p].tool = "gpio_write" => SentBy(p)' = {WriteCommand(p)}
                    \/ /\ pc[p] = "sending" /\ pc'[p] = "idle"
                       /\ SentBy(p)' = {})
             /\ (pc[p] = "resolved" /\ pc'[p] # "resolved" => SentBy(p)' # {})
             /\ (WriteReturns(p) =>
                    /\ ret' \in { gpio_result(task[p], resp) : resp \in Responses }
                    /\ \A resp \in Responses : AsClaimed(task[p], resp)) ]_vars
    /\ [](\A c \in io :
            /\ DOMAIN c = {"proc", "call", "transport", "cmd", "pin", "value"}
            /\ c.transport # NoTransport
            /\ c.cmd = "gpio_write" => c.pin = 25 /\ c.value \in {0, 1})
    /\ [](\A p \in ToolTasks :
            pc[p] \in {"resolved", "sending"} =>
                /\ task[p].alias \in DOMAIN devices
                /\ devices[task[p].alias].transport # NoTransport
                /\ devices[task[p].alias].capabilities.gpio)

\* A gpio_write has set pin 25 on the device it resolved
C26_Witness ==
    /\ ret.success
    /\ ret.output = <<"GPIO", "25", "set", "HIGH", "on", "pico", "0">>
    /\ io = {}

\* ---- claims about the API key rotation ----

\* The key of the call that observed counter value k
KeyOf(k) == api_keys[(k % Len(api_keys)) + 1]

\* C27: with n >= 1 keys the k-th call of get_next_api_key returns key
\* k mod n, also when calls run concurrently: no two calls observe the same
\* counter value, and any n consecutive calls return every key exactly once;
\* without keys it returns None and leaves the counter alone.
C27_KeyRotation ==
    /\ [](\A i \in DOMAIN key_seen : key_seen[i] = i - 1)
    /\ [](key_index = Len(key_seen))
    /\ [](\A c, d \in Callers :
            c # d /\ key_task[c].pc = "fetched" /\ key_task[d].pc = "fetched" =>
                key_task[c].idx # key_task[d].idx)
    /\ [](\A c \in Callers :
            key_task[c].pc = "fetched" =>
                \E i \in DOMAIN key_seen : key_seen[i] = key_task[c].idx)
    /\ [][ \A c \in Callers :
             key_task[c].pc = "fetched" /\ key_task'[c].pc = "idle" =>
                 key_task'[c].key = KeyNames[(key_task[c].idx % Len(api_keys)) + 1] ]_vars
    /\ [](api_keys # <<>> =>
            \A first \in DOMAIN key_seen :
                first + Len(api_keys) - 1 <= Len(key_seen) =>
                    { KeyOf(key_seen[i]) : i \in first..(first + Len(api_keys) - 1) }
                        = { api_keys[j] : j \in DOMAIN api_keys })
    /\ [](api_keys = <<>> =>
            /\ key_index = 0 /\ key_seen = <<>>
            /\ \A c \in Callers : key_task[c].pc = "idle" /\ key_task[c].key \in {"", NoneKey})

\* Three keys, the second round: the caller that observed 4 has returned the
\* second key while the caller that observed 3 before it has not yet returned
C27_Witness ==
    /\ Len(api_keys) = 3
    /\ key_index = 5
    /\ key_task["c1"] = [pc |-> "idle", idx |-> 4, key |-> "k2"]
    /\ key_task["c2"] = [pc |-> "fetched", idx |-> 3, key |-> ""]

\* ---- claims about pptx_read ----

\* The guards of pptx_read in the order they are to pass, then the reads
GuardsThenReads ==
    <<"is_rate_limited", "is_path_allowed", "record_action", "canonicalize",
      "is_resolved_path_allowed", "metadata", "read">>

IsPrefix(s, t) == Len(s) <= Len(t) /\ s = SubSeq(t, 1, Len(s))

EscapeMessage == Some(<<"resolved path escapes workspace">>)

\* What a call with these arguments under this policy does is what the guards
\* allow: content is read only when all five guards pass, and a link that
\* resolves outside the workspace is rejected with the violation message
GuardsRespected(args, policy) ==
    LET r == pptx_read(args, policy)
        f == FileAt(args.path.s)
        reads == \E i \in DOMAIN r.ops : r.ops[i] = "read"
    IN /\ IsPrefix(r.ops, GuardsThenReads)
       /\ (reads =>
              /\ args.path.t = "string"
              /\ ~policy.rate_limited /\ f.allowed /\ policy.budget /\ f.exists /\ f.inside)
       /\ ((/\ args.path.t = "string" /\ ~policy.rate_limited /\ policy.budget
            /\ f.allowed /\ f.exists /\ ~f.inside) =>
              /\ ~r.ret.success
              /\ r.ret.error = EscapeMessage
              /\ r.ops = SubSeq(GuardsThenReads, 1, 5))

\* C28: pptx_read reads file content only after all guards have passed, in
\* this order: not rate limited, is_path_allowed of the relative path,
\* record_action succeeded, the path canonicalizes, the canonical path passes
\* is_resolved_path_allowed; a symlink inside the workspace that resolves
\* outside is rejected with the violation message and nothing of its target
\* is read.
C28_GuardsBeforeRead ==
    /\ [](IsPrefix(pptx_ops, GuardsThenReads))
    /\ [](pptx_ret.kind = "ToolResult" /\ pptx_ret.success => pptx_ops = GuardsThenReads)
    /\ [](pptx_ret.error = EscapeMessage => pptx_ops = SubSeq(GuardsThenReads, 1, 5))
    /\ [][ pptx_ret' # pptx_ret =>
            /\ \E args \in PptxArgs, policy \in PptxPolicies :
                  pptx_ret' = pptx_read(args, policy).ret
                      /\ pptx_ops' = pptx_read(args, policy).ops
            /\ \A args \in PptxArgs, policy \in PptxPolicies : GuardsRespected(args, policy)
         ]_vars

\* A deck inside the workspace has been read after the five guards
C28_Witness ==
    /\ pptx_ret.success
    /\ pptx_ret.output = <<"x", "x", "x">>
    /\ pptx_ops = GuardsThenReads

\* ---- claims about the merge of hardware tools ----

Names(tools) == { tools[i] : i \in DOMAIN tools }

\* C29: after merge_hardware_tools the names in the agent's tool list are
\* pairwise distinct, given they were before, for every list of hardware
\* tools; no existing tool is replaced or removed, and added_tool_names lists
\* exactly the tools appended.
C29_MergedNamesDistinct ==
    [][ agent_tools' # agent_tools \/ hw_merge' # hw_merge =>
          /\ agent_tools' = agent_tools \o hw_merge'.added
          /\ (Distinct(agent_tools) => Distinct(agent_tools')) ]_vars

\* ---- claims about discovery ----

\* The vendor ids discovery knows, with the kind of each
KnownVendors == [v \in {11914, 9025, 4292, 1155} |->
                    IF v = 11914 THEN "Pico" ELSE IF v = 9025 THEN "Arduino"
                    ELSE IF v = 4292 THEN "Esp32" ELSE "Nucleo"]

\* C30: discovery registers a device whose USB VID is not one of the known
\* vendor ids only after a successful ping handshake with it, and then with
\* kind Generic; a port that does not answer the handshake is never
\* registered; a device with a known VID is registered with the kind derived
\* from that VID.
C30_UnknownVidNeedsPing ==
    /\ [][ \A d \in disc_found' \ disc_found :
             /\ d.info = Head(disc_scan)
             /\ (d.info.vid \notin DOMAIN KnownVendors =>
                    /\ disc_pc = "probing"
                    /\ d.info.firmware
                    /\ d.kind = "Generic")
             /\ (d.info.vid \in DOMAIN KnownVendors => d.kind = KnownVendors[d.info.vid])
         ]_vars
    /\ [](\A d \in disc_found :
            d.info.vid \notin DOMAIN KnownVendors => d.info.firmware)

(***************************************************************************)
(* C31: a change of approach after the warning                             *)
(***************************************************************************)
\* The last record of h is a successful call of a tool no earlier record
\* names, with an argument string no earlier record carries.
ChangedApproach(h) ==
    /\ Len(h) >= 1
    /\ h[Len(h)].success
    /\ \A i \in 1..(Len(h) - 1) :
          /\ h[i].tool_name # h[Len(h)].tool_name
          /\ h[i].args_sig # h[Len(h)].args_sig

\* check() returned InjectWarning and exactly one call, the last record of
\* history, was recorded since.
WarnedBeforeLastCall ==
    /\ warning_injected
    /\ Len(verdicts) >= 1
    /\ verdicts[Len(verdicts)].kind = "InjectWarning"
    /\ warned_at = Len(history) - 1

\* A step of check()
CheckStep == Len(verdicts') = Len(verdicts) + 1

\* C31: after check() returned InjectWarning, if the next recorded call is a
\* successful call of a different tool with arguments not used before, the
\* following check() returns Continue, whichever strategy caused the warning.
C31_ChangeOfApproachContinues ==
    [][ (CheckStep /\ WarnedBeforeLastCall /\ ChangedApproach(history))
            => verdicts'[Len(verdicts')].kind = "Continue" ]_vars

(***************************************************************************)
(* C32: no kill once the line is received                                  *)
(***************************************************************************)
\* execute calls child.kill in this step
KillStep == sub_child'.kill_called /\ ~sub_child.kill_called

\* The `Ok(Ok(line))` branch evaluates the exit status in this step
EvaluatesStatus == sub_pc = "collect" /\ sub_pc' = "idle" /\ sub_local.branch = "line"

RedirectNo(k) == RedirectStep /\ web_prev' = k

\* The redirect of this step was refused and execute returned
RedirectRefused == web_wire' = NoUrl /\ web_pc' = "idle" /\ ~web_ret'.success

\* C33: the redirect chain is bounded at 10 hops: each of the first 10
\* redirects of a chain is followed when its target passes validation (it is
\* refused only as a blocked target, never for the length of the chain), and
\* an 11th redirect is refused with "Too many redirects (max 10)".
C33_TenRedirectsFollowed ==
    [][ /\ \A k \in 1..MAX_REDIRECTS :
              RedirectNo(k) /\ RedirectRefused
                 => /\ Contains(web_ret'.error.text, "Blocked redirect target:")
                    /\ ~Contains(web_ret'.error.text, "Too many redirects (max 10)")
        /\ RedirectNo(MAX_REDIRECTS + 1)
              => /\ RedirectRefused
                 /\ Contains(web_ret'.error.text, "Too many redirects (max 10)")
      ]_vars

(***************************************************************************)
(* C34: normalized domain lists                                            *)
(***************************************************************************)
\* A normalized entry: not empty, lowercase, without whitespace, scheme
\* prefix, path, port, leading or trailing dot
IsNormalDomain(d) ==
    /\ d # <<>>
    /\ to_lowercase(d) = d
    /\ ~Contains(d, " ")
    /\ Head(d) \notin {"http://", "https://"}
    /\ ~Contains(d, "/")
    /\ ~Contains(d, ":")
    /\ Head(d) # "."
    /\ d[Len(d)] # "."

\* Sorted and free of duplicates
StrictlySorted(list) == \A i \in 1..(Len(list) - 1) : str_lt(list[i], list[i + 1])

\* C34: normalize_allowed_domains maps every list of raw entries to a sorted,
\* duplicate-free list of lowercase names without scheme, path, port,
\* leading or trailing dot, empty and whitespace entries discarded; applied
\* to its own result it returns that result; and URL validation applied to
\* a URL it accepted returns the same URL.
C34_NormalizedLists ==
    /\ [](norm_out # NotNormalized =>
            /\ StrictlySorted(norm_out)
            /\ \A i \in DOMAIN norm_out : IsNormalDomain(norm_out[i]))
    /\ [][ norm_out # NotNormalized /\ norm_out' # norm_out => FALSE ]_vars
    /\ [][ norm_val.first.ok /\ norm_val' # norm_val
              => norm_val'.again = VOk(norm_val.first.value) ]_vars

(***************************************************************************)
(* C35: the response-size cap                                              *)
(***************************************************************************)
\* What the claim says of one call of append_chunk_with_cap: the buffer
\* grows by a prefix of the chunk, stays within hard_cap when it was within
\* it, and the call returns true exactly when the buffer has reached
\* hard_cap
CapAsClaimed(buffer, chunk, hard_cap) ==
    LET r == append_chunk_with_cap(buffer, chunk, hard_cap)
    IN /\ \E n \in 0..Len(chunk) : r.buffer = buffer \o SubSeq(chunk, 1, n)
       /\ (Len(buffer) <= hard_cap => Len(r.buffer) <= hard_cap)
       /\ (r.ret <=> Len(r.buffer) >= hard_cap)

\* C35: with hard_cap = max_response_size + 1, after any sequence of
\* append_chunk_with_cap calls the buffer is a prefix of the concatenation
\* of the chunks and is never longer than hard_cap; the call returns true
\* exactly when the buffer has reached hard_cap; reading stops at the first
\* true, so at most max_response_size + 1 bytes are kept.
C35_ResponseSizeCap ==
    /\ [](/\ IsPrefix(cap_buf, Concat(cap_chunks))
          /\ Len(cap_buf) <= cap_max + 1
          /\ (cap_chunks # <<>> => (cap_stop.last <=> Len(cap_buf) >= cap_max + 1))
          /\ (cap_stop.last => cap_stop.ended))
    /\ [][ cap_stop.last => cap_buf' = cap_buf /\ cap_chunks' = cap_chunks ]_vars
    /\ [][ cap_chunks' # cap_chunks =>
             /\ \A buffer \in ListsUpTo(Bytes, cap_max + 1), chunk \in Chunks :
                   CapAsClaimed(buffer, chunk, cap_max + 1)
             /\ cap_buf' = append_chunk_with_cap(cap_buf, cap_chunks'[Len(cap_chunks')],
                                                 cap_max + 1).buffer
             /\ cap_stop'.last = append_chunk_with_cap(cap_buf, cap_chunks'[Len(cap_chunks')],
                                                       cap_max + 1).ret ]_vars

\* A body longer than the cap: the second chunk was cut, the call returned
\* true and the loop ended with max_response_size + 1 bytes
C35_Witness ==
    /\ cap_max = 2
    /\ cap_chunks = << <<"a", "b">>, <<"b", "a">> >>
    /\ cap_buf = <<"a", "b", "b">>
    /\ cap_stop = [ended |-> TRUE, last |-> TRUE]

(***************************************************************************)
(* C36: the observer's events per request                                  *)
(***************************************************************************)
\* What the observer has received for request r, in order
RECURSIVE EventsOf(_, _)
EventsOf(r, events) ==
    IF events = <<>> THEN <<>>
    ELSE IF Head(events).request = r
         THEN <<[event |-> Head(events).event, success |-> Head(events).success]>>
              \o EventsOf(r, Tail(events))
         ELSE EventsOf(r, Tail(events))

\* The events of a request before the agent loop answers, and of a whole run
\* with the given outcome
StartEvents ==
    <<[event |-> "AgentStart", success |-> TRUE], [event |-> "LlmRequest", success |-> TRUE]>>
RunEvents(ok) ==
    StartEvents \o <<[event |-> "LlmResponse", success |-> ok],
                     [event |-> "RequestLatency", success |-> TRUE],
                     [event |-> "AgentEnd", success |-> TRUE]>>

\* C36: for every request that passes rate limiting, authentication and body
\* validation the observer receives AgentStart, LlmRequest, one LlmResponse
\* whose success flag is the outcome of the agent loop, RequestLatency and
\* one AgentEnd, in this order, on the success path and on the
\* provider-error path; a rejected request (429, 401, 400, 413) emits none.
C36_ObserverEvents ==
    \A r \in Requests :
        LET seen == EventsOf(r, gw_events)
            req == gw_req[r]
        IN /\ (req.pc \in {"idle", "save", "run"} => seen = <<>>)
           /\ (req.pc = "loop" => seen = StartEvents)
           /\ (req.pc = "done" /\ req.status \in {429, 401, 400, 413} => seen = <<>>)
           /\ (req.pc = "done" /\ req.status = 200 => seen = RunEvents(TRUE))
           /\ (req.pc = "done" /\ req.status = 500 => seen = RunEvents(FALSE))
           /\ (req.pc = "done" => req.status \in {429, 401, 400, 413, 200, 500})

\* Two requests ran at the same time, one answered 200 and one 500 after a
\* provider error, and a request of the other endpoint was served as well
C36_Witness ==
    /\ gw_req["r1"].pc = "done" /\ gw_req["r1"].status = 200
    /\ gw_req["r1"].endpoint = ApiChat
    /\ gw_req["r2"].pc = "done" /\ gw_req["r2"].status = 500
    /\ gw_req["r2"].endpoint = ChatCompletions
    /\ Len(gw_events) = 10
    /\ gw_events[2].request = "r2" /\ gw_events[3].request = "r1"
    /\ gw_events[10].request = "r2"

(***************************************************************************)
(* C37: session scoping of /api/chat                                       *)
(***************************************************************************)
\* The rows the handler of r has stored
RowsOf(r) == { row \in gw_mem : row.key = gw_req[r].key }

\* C37: when a /api/chat request carries a session_id, every memory store
\* made for that request, the auto-save included, is written with that
\* session_id.
C37_StoresInSession ==
    \A r \in Requests :
        gw_req[r].endpoint = ApiChat /\ gw_req[r].session_id # NoSession =>
            \A row \in RowsOf(r) : row.session_id = gw_req[r].session_id

(***************************************************************************)
(* C39: a failed reconnect                                                 *)
(***************************************************************************)
\* reconnect returns Err in this step, from the alias lookup, the port path
\* or the handshake
ReconnectErr(p) ==
    \/ ReturnsErr(p, <<"unknown device alias:">>)
    \/ ReturnsErr(p, <<"device">>)
    \/ ReconnectEnds(p) /\ ret'.kind = "Err"

\* C39: a reconnect that returns Err leaves the Device record of its alias as
\* it was when reconnect was called (alias, board_name, device_path), and no
\* reconnect changes another entry of the registry.
C39_FailedReconnectKeepsDevice ==
    [][ \A p \in AdminTasks :
          /\ (ReconnectErr(p) /\ pc[p] = "write_locked" => devices' = devices)
          /\ (ReconnectErr(p) /\ pc[p] = "pinging" =>
                 devices'[task[p].alias].device = task[p].before)
          /\ (ReconnectStarts(p) =>
                 /\ DOMAIN devices' = DOMAIN devices
                 /\ \A b \in DOMAIN devices \ {task'[p].alias} : devices'[b] = devices[b])
          /\ (ReconnectEnds(p) =>
                 /\ DOMAIN devices' = DOMAIN devices
                 /\ \A b \in DOMAIN devices \ {task[p].alias} : devices'[b] = devices[b]) ]_vars

(***************************************************************************)
(* C38: what check() and record_call change                                *)
(***************************************************************************)
\* A step of record_call
RecordStep == Len(history') = Len(history) + 1

\* C38: check() never changes the call history or the failure counters; the
\* only state it changes is the warning latch, which goes from false to true
\* and never back; record_call appends exactly one record, changes only the
\* failure counter of the recorded tool and never the latch or an earlier
\* record.
C38_Frame ==
    /\ [][ CheckStep =>
             /\ history' = history
             /\ consecutive_failures' = consecutive_failures
             /\ config' = config
             /\ (warning_injected => warning_injected') ]_vars
    /\ [][ warning_injected => warning_injected' ]_vars
    /\ [][ warning_injected' # warning_injected => CheckStep ]_vars
    /\ [][ history' # history =>
             /\ RecordStep
             /\ SubSeq(history', 1, Len(history)) = history
             /\ \A t \in ToolNames \ {history'[Len(history')].tool_name} :
                   consecutive_failures'[t] = consecutive_failures[t]
             /\ warning_injected' = warning_injected
             /\ config' = config ]_vars
    /\ [][ consecutive_failures' # consecutive_failures => RecordStep ]_vars

\* After the warning a call was recorded and the next check returned
\* HardStop: the latch is still set and a failure counter is not zero
C38_Witness ==
    /\ warning_injected
    /\ Len(verdicts) = 2 /\ verdicts[2].kind = "HardStop"
    /\ Len(history) = warned_at + 1
    /\ consecutive_failures["echo"] = 2
    /\ consecutive_failures["shell"] = 1

(***************************************************************************)
(* C40: the status of the Android bridge under concurrent callers          *)
(***************************************************************************)
\* A get_status() call returns
GetStatusStep == \E t \in Threads : br_task[t] = "get_status" /\ br_task'[t] = "idle"

\* A start() call takes the lock for the first time
StartLockStep == \E t \in Threads : br_task[t] = "start" /\ br_task'[t] # "start"

\* get_status() reports Running whenever a start() has returned Ok and no
\* stop() has begun since (a stop() in flight when the start() returned
\* counts as begun)
C40_RunningAfterStart ==
    [][ GetStatusStep /\ br_hist.start_ok => br_seen' = "Running" ]_vars

\* get_status() reports Stopped whenever a stop() has returned that no
\* start() overlapped or followed
C40_StoppedAfterStop ==
    [][ GetStatusStep /\ br_hist.stop_clean => br_seen' = "Stopped" ]_vars

\* start() on a Running controller changes nothing and returns Ok
C40_StartOnRunning ==
    [][ StartLockStep /\ br_status = "Running" =>
          /\ br_status' = "Running"
          /\ \A t \in Threads : br_task[t] = "start" => br_task'[t] \in {"start", "idle"} ]_vars

\* C40: whenever a start() call has returned Ok and no stop() call has begun
\* since, get_status() reports Running (not Starting or Stopped); whenever
\* stop() has returned and no start() call overlapped or followed it,
\* get_status() reports Stopped; start() on a Running controller changes
\* nothing.
C40_BridgeStatus ==
    /\ C40_RunningAfterStart
    /\ C40_StoppedAfterStop
    /\ C40_StartOnRunning

====
